---- MODULE Spec2Model ----
(***************************************************************************)
(* Model of the quote-extraction pipeline of                               *)
(* src/email_extractor/llm_extract_data.py: the record helpers             *)
(* (complete_check, normalize_key_aliases, coerce_price, the email         *)
(* heuristics, the description refiner, enrich_and_validate_quote), the    *)
(* retry loop of call_llm, process_file and the main loop of main().       *)
(*                                                                         *)
(* Text is a sequence of one-character strings, so that strip(), count(),  *)
(* replace(), "in" and float() are computed and not assumed.  A Python     *)
(* value is a record [t, s, n, d]: t its type, s the characters of a str,  *)
(* n/d the number of an int, bool or float.  A dict is a function from its *)
(* keys (strings) to values.  Field names are written without accents.     *)
(***************************************************************************)
EXTENDS Integers, Sequences, FiniteSets, TLC

\* ------------------------------------------------------------------ bounds

\* Longest price string enumerated over PriceAlphabet.
MaxPriceLen == 3

\* ------------------------------------------------------------------ values

PyNone == [t |-> "none", s |-> <<>>, n |-> 0, d |-> 1]
PyStr(cs) == [t |-> "str", s |-> cs, n |-> 0, d |-> 1]
PyInt(k) == [t |-> "int", s |-> <<>>, n |-> k, d |-> 1]
PyBool(b) == [t |-> "bool", s |-> <<>>, n |-> IF b THEN 1 ELSE 0, d |-> 1]
PyFloat(num, den) == [t |-> "float", s |-> <<>>, n |-> num, d |-> den]
\* An int json.loads accepts and float() cannot hold (10**400).
PyBigInt == [t |-> "bigint", s |-> <<>>, n |-> 0, d |-> 1]
\* A non-empty JSON array or object as a field value.
PyList == [t |-> "list", s |-> <<>>, n |-> 1, d |-> 1]
EmptyStr == PyStr(<<>>)

\* A lone surrogate ("\ud800" in the JSON text): json.loads yields it and
\* the utf-8 codec of write_text refuses it.
Surrogate == "<ud800>"

Whitespace == {" ", "\t", "\n"}

Min(S) == CHOOSE x \in S : \A y \in S : x <= y
Max(S) == CHOOSE x \in S : \A y \in S : x >= y

\* str.strip(chars): what lies between the first and the last character
\* that is not in S.
StripChars(cs, S) ==
  LET keep == {i \in 1..Len(cs) : cs[i] \notin S}
  IN IF keep = {} THEN <<>> ELSE SubSeq(cs, Min(keep), Max(keep))

\* [p.strip(chars) for p in parts]
StripAll(parts, S) == [i \in 1..Len(parts) |-> StripChars(parts[i], S)]

\* str.rstrip()
RStrip(cs) ==
  LET keep == {i \in 1..Len(cs) : cs[i] \notin Whitespace}
  IN IF keep = {} THEN <<>> ELSE SubSeq(cs, 1, Max(keep))

\* str.strip()
Strip(cs) == StripChars(cs, Whitespace)

\* bool(v): Python truthiness, as used by "x or ''".
Truthy(v) ==
  CASE v.t = "none" -> FALSE
    [] v.t = "str" -> v.s # <<>>
    [] v.t \in {"int", "bool", "float"} -> v.n # 0
    [] OTHER -> TRUE

\* The decimal digits of a natural number, as str() prints them.
RECURSIVE DigitsOf(_)
DigitsOf(k) ==
  LET c == <<"0", "1", "2", "3", "4", "5", "6", "7", "8", "9">>[(k % 10) + 1]
  IN IF k < 10 THEN <<c>> ELSE Append(DigitsOf(k \div 10), c)

\* The decimal digits of k, padded with zeros on the left to the width of
\* den - 1 (den a power of ten): the digits after the point of k / den.
RECURSIVE FractionDigits(_, _)
FractionDigits(k, den) ==
  IF den <= 1 THEN <<>>
  ELSE Append(FractionDigits(k \div 10, den \div 10),
              <<"0", "1", "2", "3", "4", "5", "6", "7", "8", "9">>[(k % 10) + 1])

\* repr of the float num / den, den the least power of ten that holds it.
FloatRepr(num, den) ==
  LET a == IF num < 0 THEN -num ELSE num
  IN (IF num < 0 THEN <<"-">> ELSE <<>>) \o DigitsOf(a \div den) \o <<".">>
     \o (IF den = 1 THEN <<"0">> ELSE FractionDigits(a % den, den))

\* str(v), for the values the model holds.
StrOf(v) ==
  CASE v.t = "str" -> v.s
    [] v.t = "none" -> <<"N", "o", "n", "e">>
    [] v.t = "bool" -> IF v.n = 1 THEN <<"T", "r", "u", "e">>
                       ELSE <<"F", "a", "l", "s", "e">>
    [] v.t = "int" -> IF v.n < 0 THEN <<"-">> \o DigitsOf(-v.n) ELSE DigitsOf(v.n)
    [] v.t = "bigint" -> <<"1", "0", "0", "0">>
    [] v.t = "float" -> FloatRepr(v.n, v.d)
    [] OTHER -> <<"[", "1", "]">>

\* ------------------------------------------------------------------ schema

HEADER_FIELDS ==
  << "Timestamp", "Fornecedor", "Assunto", "Nome do hotel", "Cidade",
     "Check-in", "Check-out", "Numero de quartos", "Descricao dos Quartos",
     "Categoria do quarto", "Preco (num)", "Configuracao do quarto",
     "Tarifa NET ou comissionada?", "Taxa? Ex.: 5% de ISS",
     "Servicos incluso?", "Politica de pagamento",
     "Politica de cancelamento", "Email do fornecedor",
     "Email do remetente (top-level)" >>

Range(sq) == {sq[i] : i \in 1..Len(sq)}

\* dict | {k: v}
DictSet(dct, k, v) ==
  [x \in (DOMAIN dct) \cup {k} |-> IF x = k THEN v ELSE dct[x]]

\* dict without key k (pop)
DictDel(dct, k) == [x \in (DOMAIN dct) \ {k} |-> dct[x]]

\* dict.get(k, default)
DictGet(dct, k, default) == IF k \in DOMAIN dct THEN dct[k] ELSE default

EmptyDict == [x \in {} |-> PyNone]

\* {**a, **b}: the keys of b win.
DictMerge(a, b) ==
  [x \in (DOMAIN a) \cup (DOMAIN b) |-> IF x \in DOMAIN b THEN b[x] ELSE a[x]]

\* ---------------------------------------------------------- complete_check

\* The test of one field inside the loop of complete_check.
IsMissingNoStrip(record, k) ==
  IF k \notin DOMAIN record THEN TRUE
  ELSE LET v == record[k]
       IN IF v.t = "none" THEN TRUE
          ELSE v.t = "str" /\ v.s = <<>>

IsMissing(record, k) ==
  IF k \notin DOMAIN record THEN TRUE
  ELSE LET v == record[k]
       IN IF v.t = "none" THEN TRUE
          ELSE v.t = "str" /\ Strip(v.s) = <<>>

\* The loop appends to missing, in the order of required_fields, each field
\* the test holds for.
complete_check(record, required_fields) ==
  LET missing == SelectSeq(required_fields, LAMBDA k : IsMissing(record, k))
  IN [complete |-> (Len(missing) = 0), missing |-> missing]

\* --------------------------------------------------- normalize_key_aliases

\* OLD_TO_NEW_KEYS, in the insertion order the loop follows.
OLD_TO_NEW_KEYS ==
  << <<"Tipo de quarto (normalizado)", "Categoria do quarto">>,
     <<"Qual configuracao do quarto (twin, double)", "Configuracao do quarto">>,
     <<"Descricao de Valores", "Descricao dos Quartos">>,
     <<"Descricao de Quartos", "Descricao dos Quartos">>,
     <<"Descricao do Quarto", "Descricao dos Quartos">> >>

OldKeys == {OLD_TO_NEW_KEYS[i][1] : i \in 1..Len(OLD_TO_NEW_KEYS)}

\* One turn of the loop: out[new_k] = out.pop(old_k) when old_k is in out and
\* new_k is not.
AliasStepOverwrites(out, pair) ==
  IF pair[1] \in DOMAIN out
  THEN DictSet(DictDel(out, pair[1]), pair[2], out[pair[1]])
  ELSE out

AliasStep(out, pair) ==
  IF pair[1] \in DOMAIN out /\ pair[2] \notin DOMAIN out
  THEN DictSet(DictDel(out, pair[1]), pair[2], out[pair[1]])
  ELSE out

\* "for old_k, new_k in OLD_TO_NEW_KEYS.items()"
RECURSIVE AliasLoopFirstOnly(_, _)
AliasLoopFirstOnly(out, pairs) ==
  IF pairs = <<>> THEN out
  ELSE IF AliasStep(out, Head(pairs)) # out THEN AliasStep(out, Head(pairs))
  ELSE AliasLoopFirstOnly(out, Tail(pairs))

RECURSIVE AliasLoop(_, _)
AliasLoop(out, pairs) ==
  IF pairs = <<>> THEN out
  ELSE AliasLoop(AliasStep(out, Head(pairs)), Tail(pairs))

normalize_key_aliases(dct) ==
  IF DOMAIN dct = {} THEN dct ELSE AliasLoop(dct, OLD_TO_NEW_KEYS)

\* ------------------------------------------------------------ coerce_price

\* What a call gives: a value, or the exception it raised.
Ok(v) == [exc |-> "", val |-> v]
Raise(e) == [exc |-> e, val |-> PyNone]

Digits == {"0", "1", "2", "3", "4", "5", "6", "7", "8", "9"}

DigitVal(c) ==
  CASE c = "0" -> 0 [] c = "1" -> 1 [] c = "2" -> 2 [] c = "3" -> 3
    [] c = "4" -> 4 [] c = "5" -> 5 [] c = "6" -> 6 [] c = "7" -> 7
    [] c = "8" -> 8 [] c = "9" -> 9

\* s.count(c)
Count(cs, c) == Cardinality({i \in 1..Len(cs) : cs[i] = c})

\* s.replace(a, b) for a character a, and b a character or "".
Replace(cs, a, b) ==
  IF b = <<>> THEN SelectSeq(cs, LAMBDA c : c # a)
  ELSE [i \in 1..Len(cs) |-> IF cs[i] = a THEN b[1] ELSE cs[i]]

RECURSIVE NatOf(_, _)
NatOf(cs, acc) ==
  IF cs = <<>> THEN acc ELSE NatOf(Tail(cs), acc * 10 + DigitVal(Head(cs)))

RECURSIVE Pow10(_)
Pow10(k) == IF k = 0 THEN 1 ELSE 10 * Pow10(k - 1)

\* A float as the fraction num/den with den a power of 10, in lowest such
\* terms, so that equal floats are equal records.
RECURSIVE NormFloat(_, _)
NormFloat(num, den) ==
  IF den > 1 /\ num % 10 = 0 THEN NormFloat(num \div 10, den \div 10)
  ELSE PyFloat(num, den)

\* float(s) on a str: surrounding whitespace is dropped, then an optional
\* sign, then digits with at most one "." and at least one digit.  The
\* alphabets of the model hold no exponent, "inf", "nan" or "_".
WellFormedFloat(body) ==
  /\ \A i \in 1..Len(body) : body[i] \in Digits \cup {"."}
  /\ Count(body, ".") <= 1
  /\ \E i \in 1..Len(body) : body[i] \in Digits

\* The number of digits after the point.
FracLen(body) ==
  Cardinality({i \in 1..Len(body) : \E j \in 1..(i - 1) : body[j] = "."})

ParseUnsigned(body, sign) ==
  IF WellFormedFloat(body)
  THEN Ok(NormFloat(sign * NatOf(Replace(body, ".", <<>>), 0), Pow10(FracLen(body))))
  ELSE Raise("ValueError")

ParseStripped(t) ==
  IF t # <<>> /\ Head(t) \in {"+", "-"}
  THEN ParseUnsigned(Tail(t), IF Head(t) = "-" THEN -1 ELSE 1)
  ELSE ParseUnsigned(t, 1)

ParseFloat(cs) == ParseStripped(Strip(cs))

\* "if s.count(',') == 1 and s.count('.') > 1: ... else: ..."
DecimalPoint(s) ==
  IF Count(s, ",") = 1 /\ Count(s, ".") > 1
  THEN Replace(Replace(s, ".", <<>>), ",", <<".">>)
  ELSE Replace(s, ",", <<".">>)

\* "try: return float(s) / except Exception: return ''"
FloatOr(f, fallback) == IF f.exc = "" THEN f ELSE Ok(fallback)

FloatOrRaw(s2, keepRaw) ==
  FloatOr(ParseFloat(s2), IF keepRaw THEN PyStr(s2) ELSE EmptyStr)

CoerceStripped(s, keepRaw) ==
  IF s = <<>> THEN Ok(EmptyStr) ELSE FloatOrRaw(DecimalPoint(s), keepRaw)

\* The tail of coerce_price, from "s = str(value).strip()" on; with keepRaw
\* the except branch returns the string instead of "".
CoerceText(value, keepRaw) == CoerceStripped(Strip(StrOf(value)), keepRaw)

coerce_price_KeepsRaw(value) ==
  IF value.t = "none" THEN Ok(EmptyStr)
  ELSE IF value.t \in {"int", "bool", "float"} THEN Ok(NormFloat(value.n, value.d))
  ELSE IF value.t = "bigint" THEN Raise("OverflowError")
  ELSE CoerceText(value, TRUE)

coerce_price(value) ==
  IF value.t = "none" THEN Ok(EmptyStr)
  ELSE IF value.t \in {"int", "bool", "float"} THEN Ok(NormFloat(value.n, value.d))
  ELSE IF value.t = "bigint" THEN Raise("OverflowError")
  ELSE CoerceText(value, FALSE)

\* ------------------------------------------------------------ text helpers

Upper == <<"A", "B", "C", "D", "E", "F", "G", "H", "I", "J", "K", "L", "M",
           "N", "O", "P", "Q", "R", "S", "T", "U", "V", "W", "X", "Y", "Z">>
Lowers == <<"a", "b", "c", "d", "e", "f", "g", "h", "i", "j", "k", "l", "m",
            "n", "o", "p", "q", "r", "s", "t", "u", "v", "w", "x", "y", "z">>

LowerChar(c) ==
  IF \E i \in 1..26 : Upper[i] = c
  THEN Lowers[CHOOSE i \in 1..26 : Upper[i] = c]
  ELSE c

\* str.lower()
Lower(cs) == [i \in 1..Len(cs) |-> LowerChar(cs[i])]

\* needle occurs in hay at offset i (1-based)
MatchAt(hay, needle, i) ==
  /\ i >= 1
  /\ i + Len(needle) - 1 <= Len(hay)
  /\ \A j \in 1..Len(needle) : hay[i + j - 1] = needle[j]

\* "needle in hay"
Contains(hay, needle) == \E i \in 1..(Len(hay) + 1) : MatchAt(hay, needle, i)

\* s.startswith(p)
StartsWith(cs, p) == MatchAt(cs, p, 1)

\* ---------------------------------------------------------- email heuristics

\* A body is its lines; of a line the model keeps what the heuristics read:
\* hdr, the prefix line.strip().lower() starts with ("from:", "to:" or
\* neither, written ""), and emails, the matches of EMAIL_REGEX in the line
\* from left to right.  head is the number of leading lines that lie in the
\* first 3000 characters (body_text[:3000]).
BodyLine(hdr, emails) == [hdr |-> hdr, emails |-> emails]
Body(lines, head) == [lines |-> lines, head |-> head]

\* em.split("@")[-1].lower()
AfterLastAt(cs) ==
  LET ats == {i \in 1..Len(cs) : cs[i] = "@"}
  IN IF ats = {} THEN cs ELSE SubSeq(cs, Max(ats) + 1, Len(cs))

DomainOf(em) == Lower(AfterLastAt(em))

ignore_domains ==
  { <<"p", "a", "r", "r", "o", "t", "t", "r", "i", "p", "s", ".", "c", "o", "m">>,
    <<"f", "a", "c", "e", "b", "o", "o", "k", ".", "c", "o", "m">>,
    <<"i", "n", "s", "t", "a", "g", "r", "a", "m", ".", "c", "o", "m">>,
    <<"l", "i", "n", "k", "e", "d", "i", "n", ".", "c", "o", "m">>,
    <<"g", "m", "a", "i", "l", ".", "c", "o", "m">>,
    <<"g", "o", "o", "g", "l", "e", "m", "a", "i", "l", ".", "c", "o", "m">> }

\* All the matches of the lines, in order: <<line index, address>>.
RECURSIVE AllEmails(_, _)
AllEmails(lines, i) ==
  IF i > Len(lines) THEN <<>>
  ELSE [j \in 1..Len(lines[i].emails) |-> <<i, lines[i].emails[j]>>]
       \o AllEmails(lines, i + 1)

\* extract_top_from_email: the first "from:" line of the head that holds an
\* address, else the first address of the head, else "".
extract_top_from_email(body) ==
  LET head == SubSeq(body.lines, 1, body.head)
      fromLines == {i \in 1..Len(head) :
                      head[i].hdr = "from:" /\ head[i].emails # <<>>}
      all == AllEmails(head, 1)
  IN IF fromLines # {}
     THEN head[CHOOSE i \in fromLines : \A j \in fromLines : i <= j].emails[1]
     ELSE IF all # <<>> THEN all[1][2] ELSE <<>>

\* extract_supplier_email_heuristic, with the test that drops an address.
SupplierPick(body, dropped(_)) ==
  LET all == AllEmails(body.lines, 1)
      kept == SelectSeq(all, LAMBDA e : ~dropped(e[2]))
      candidates_priority ==
        SelectSeq(kept, LAMBDA e : body.lines[e[1]].hdr \in {"from:", "to:"})
      candidates_regular ==
        SelectSeq(kept, LAMBDA e : body.lines[e[1]].hdr \notin {"from:", "to:"})
  IN IF candidates_priority # <<>> THEN candidates_priority[1][2]
     ELSE IF candidates_regular # <<>> THEN candidates_regular[1][2]
     ELSE <<>>

\* "if domain in ignore_domains"
IgnoredDomainCased(em) == AfterLastAt(em) \in ignore_domains

IgnoredDomain(em) == DomainOf(em) \in ignore_domains

extract_supplier_email_heuristic(body) == SupplierPick(body, IgnoredDomain)

\* ------------------------------------------------------ strip_price_tokens

\* \w of the regular expressions, on the characters of the model.
IsWordChar(c) == c \in Digits \/ c = "_" \/ LowerChar(c) \in Range(Lowers)

CharAt(cs, i) == IF i >= 1 /\ i <= Len(cs) THEN cs[i] ELSE ""

\* The length of the run of characters of set S that starts at offset i.
RunLen(cs, i, S) ==
  CHOOSE k \in 0..Len(cs) :
    /\ \A j \in 0..(k - 1) : CharAt(cs, i + j) \in S
    /\ CharAt(cs, i + k) \notin S

\* "\$\s?\d[\d\.\,]*" at offset i: the length matched, 0 when it does not.
DollarLen(cs, i) ==
  IF CharAt(cs, i) # "$" THEN 0
  ELSE IF CharAt(cs, i + 1) \in Whitespace /\ CharAt(cs, i + 2) \in Digits
       THEN 2 + RunLen(cs, i + 2, Digits \cup {".", ","})
  ELSE IF CharAt(cs, i + 1) \in Digits
       THEN 1 + RunLen(cs, i + 1, Digits \cup {".", ","})
  ELSE 0

\* "\b\d{1,3}(\.\d{3})*(,\d+)?\b" at offset i.  A match is d leading digits,
\* k groups ".ddd" and m digits after a comma (m = 0: no comma part); the
\* greedy search takes the first that fits, d, k, m each as large as can be,
\* in that order.
GroupedOk(cs, i, d, k, m) ==
  LET e == i + d + 4 * k + (IF m > 0 THEN 1 + m ELSE 0)
  IN /\ ~IsWordChar(CharAt(cs, i - 1))
     /\ \A j \in 0..(d - 1) : CharAt(cs, i + j) \in Digits
     /\ \A g \in 0..(k - 1) :
          /\ CharAt(cs, i + d + 4 * g) = "."
          /\ \A j \in 1..3 : CharAt(cs, i + d + 4 * g + j) \in Digits
     /\ m > 0 => /\ CharAt(cs, i + d + 4 * k) = ","
                 /\ \A j \in 1..m : CharAt(cs, i + d + 4 * k + j) \in Digits
     /\ ~IsWordChar(CharAt(cs, e))

GroupedFits(cs, i) ==
  {t \in (1..3) \X (0..((Len(cs) - i) \div 4)) \X (0..(Len(cs) - i)) :
     GroupedOk(cs, i, t[1], t[2], t[3])}

FitLen(t) == t[1] + 4 * t[2] + (IF t[3] > 0 THEN 1 + t[3] ELSE 0)

FirstFit(fits) ==
  CHOOSE t \in fits : \A u \in fits :
    \/ t[1] > u[1]
    \/ t[1] = u[1] /\ t[2] > u[2]
    \/ t[1] = u[1] /\ t[2] = u[2] /\ t[3] >= u[3]

FirstFitLen(fits) == IF fits = {} THEN 0 ELSE FitLen(FirstFit(fits))

GroupedLen(cs, i) ==
  IF CharAt(cs, i) \notin Digits THEN 0 ELSE FirstFitLen(GroupedFits(cs, i))

\* _PRICE_TOKEN_RE at offset i: "R\$..." (any case), "\$...", a grouped number.
PriceTokenLen(cs, i) ==
  IF LowerChar(CharAt(cs, i)) = "r" /\ DollarLen(cs, i + 1) > 0
  THEN 1 + DollarLen(cs, i + 1)
  ELSE IF DollarLen(cs, i) > 0 THEN DollarLen(cs, i)
  ELSE GroupedLen(cs, i)

\* The pieces of cs, from offset i, between the leftmost matches that do not
\* overlap; lens[j] is the length of the match at offset j, 0 when none.
RECURSIVE SplitFrom(_, _, _)
SplitFrom(cs, i, lens) ==
  LET starts == {j \in i..Len(cs) : lens[j] > 0}
  IN IF starts = {} THEN <<SubSeq(cs, i, Len(cs))>>
     ELSE <<SubSeq(cs, i, Min(starts) - 1)>>
          \o SplitFrom(cs, Min(starts) + lens[Min(starts)], lens)

\* re.split with the pattern whose match at offset j has length len(cs, j);
\* re.sub joins the pieces with the replacement.
SplitOn(cs, len(_, _)) == SplitFrom(cs, 1, [j \in 1..Len(cs) |-> len(cs, j)])

\* sep.join(parts)
RECURSIVE Join(_, _)
Join(parts, sep) ==
  IF parts = <<>> THEN <<>>
  ELSE IF Len(parts) = 1 THEN parts[1]
  ELSE parts[1] \o sep \o Join(Tail(parts), sep)

\* _PRICE_TOKEN_RE.sub("", text)
PriceSub(cs) == Join(SplitOn(cs, PriceTokenLen), <<>>)

\* A run of two or more whitespace characters at offset i: its length.
WideGapLen(cs, i) ==
  IF RunLen(cs, i, Whitespace) >= 2 THEN RunLen(cs, i, Whitespace) ELSE 0

\* re.sub(r"\s{2,}", " ", text)
CollapseWs(cs) == Join(SplitOn(cs, WideGapLen), <<" ">>)

\* str.splitlines()
RECURSIVE SplitLines(_)
SplitLines(cs) ==
  IF \A i \in 1..Len(cs) : cs[i] # "\n"
  THEN IF cs = <<>> THEN <<>> ELSE <<cs>>
  ELSE LET i == CHOOSE i \in 1..Len(cs) :
                  cs[i] = "\n" /\ \A j \in 1..(i - 1) : cs[j] # "\n"
       IN <<SubSeq(cs, 1, i - 1)>> \o SplitLines(SubSeq(cs, i + 1, Len(cs)))

strip_price_tokens(text) ==
  IF Strip(text) = <<>> THEN text
  ELSE LET cleaned == CollapseWs(PriceSub(text))
           lines == SplitLines(cleaned)
       IN Strip(Join([i \in 1..Len(lines) |-> RStrip(lines[i])], <<"\n">>))

\* ------------------------------------------------- _remove_hotel_wide_info

\* _norm: lower(), strip(), accents removed (the model's text has none).
_norm(cs) == Strip(Lower(cs))

\* HOTEL_WIDE_TERMS in order, less the accented spellings: _norm removes the
\* accents of the text, so a term written with an accent matches nothing.
HOTEL_WIDE_TERMS ==
  << <<"c", "a", "f", "e", " ", "d", "a", " ", "m", "a", "n", "h", "a">>,
     <<"t", "a", "x", "a">>,
     <<"i", "s", "s">>,
     <<"s", "e", "r", "v", "i", "c", "o">>,
     <<"p", "o", "l", "i", "t", "i", "c", "a", " ", "d", "e", " ", "p", "a", "g", "a", "m", "e", "n", "t", "o">>,
     <<"p", "o", "l", "i", "t", "i", "c", "a", " ", "d", "e", " ", "c", "a", "n", "c", "e", "l", "a", "m", "e", "n", "t", "o">>,
     <<"p", "r", "e", " ", "p", "a", "g", "a", "m", "e", "n", "t", "o">>,
     <<"p", "r", "e", "-", "p", "a", "g", "a", "m", "e", "n", "t", "o">>,
     <<"n", "o", " ", "s", "h", "o", "w">>,
     <<"f", "a", "t", "u", "r", "a", "m", "e", "n", "t", "o">>,
     <<"b", "o", "l", "e", "t", "o">>,
     <<"p", "i", "x">>,
     <<"c", "a", "r", "t", "a", "o">>,
     <<"d", "e", "p", "o", "s", "i", "t", "o">> >>

\* The separator of re.split(r"(?<=[.!?])\s+|\s*;\s*|\s*\|\s*", s) at offset
\* i: its length, 0 when none starts there.
SentenceSepLen(cs, i) ==
  LET w == RunLen(cs, i, Whitespace)
  IN IF w > 0 /\ CharAt(cs, i - 1) \in {".", "!", "?"} THEN w
     ELSE IF CharAt(cs, i + w) \in {";", "|"}
          THEN w + 1 + RunLen(cs, i + w + 1, Whitespace)
     ELSE 0

\* The body of "if term in n": the sentences without the term, joined.
DropSentences(s, term) ==
  Join(SelectSeq(StripAll(SplitOn(s, SentenceSepLen), Whitespace),
                 LAMBDA t : t # <<>> /\ ~Contains(_norm(t), term)),
       <<";", " ">>)

\* The loop over HOTEL_WIDE_TERMS.
RECURSIVE HotelWideLoop(_, _)
HotelWideLoop(s, terms) ==
  IF terms = <<>> THEN s
  ELSE IF Contains(_norm(s), Head(terms))
       THEN HotelWideLoop(DropSentences(s, Head(terms)), Tail(terms))
  ELSE HotelWideLoop(s, Tail(terms))

_remove_hotel_wide_info(s) == Strip(HotelWideLoop(s, HOTEL_WIDE_TERMS))

\* ------------------------------------------------------ _line_split_chunks

\* The bullet characters of the split: "-", and the tokens that stand for
\* U+2022 and U+2013.
Bullets == {"-", "<bull>", "<ndash>"}

\* The separator of re.split(r"(?:\n|\r|\r\n|^)\s*[bullets]\s*|[\r\n]+", text)
\* at offset i: its length, 0 when none starts there.
ChunkSepLen(cs, i) ==
  LET from == IF i = 1 /\ CharAt(cs, 1) # "\n" THEN i ELSE i + 1
      w == RunLen(cs, from, Whitespace)
      anchored == i = 1 \/ CharAt(cs, i) = "\n"
  IN IF anchored /\ CharAt(cs, from + w) \in Bullets
     THEN (from - i) + w + 1 + RunLen(cs, from + w + 1, Whitespace)
     ELSE RunLen(cs, i, {"\n"})

\* The merge test of two fragments: buf has no final ".", ";" or ":" and the
\* next one starts, once normalised, with a letter or a digit.
IsContinuation(buf, p) ==
  /\ CharAt(buf, Len(buf)) \notin {".", ";", ":"}
  /\ CharAt(_norm(p), 1) \in Range(Lowers) \cup Digits

\* The loop that joins the fragments: joined and buf after the parts.
RECURSIVE JoinLoop(_, _, _)
JoinLoop(parts, joined, buf) ==
  IF parts = <<>> THEN IF buf # <<>> THEN Append(joined, Strip(buf)) ELSE joined
  ELSE LET p == Head(parts)
       IN IF buf = <<>> THEN JoinLoop(Tail(parts), joined, p)
          ELSE IF IsContinuation(buf, p)
               THEN JoinLoop(Tail(parts), joined, buf \o <<" ">> \o p)
          ELSE JoinLoop(Tail(parts), Append(joined, Strip(buf)), p)

_line_split_chunks(text) ==
  IF text = <<>> THEN <<>>
  ELSE JoinLoop(StripAll(SelectSeq(SplitOn(text, ChunkSepLen),
                                   LAMBDA p : Strip(p) # <<>>),
                         {" ", "\t", ";", ",", "."}),
                <<>>, <<>>)

\* ------------------------------------------------------------ line scores

\* "any(k in text for k in words)"
AnyIn(text, words) == \E w \in words : Contains(text, w)

\* _config_keywords from "keys = set()" on, n the normalised text.
KeywordsOf(n) ==
  IF n = <<>> THEN {}
     ELSE (IF AnyIn(n, {<<"s", "g", "l">>, <<"s", "i", "n", "g", "l", "e">>, <<"i", "n", "d", "i", "v", "i", "d", "u", "a", "l">>})
           THEN {<<"s", "g", "l">>, <<"s", "i", "n", "g", "l", "e">>, <<"i", "n", "d", "i", "v", "i", "d", "u", "a", "l">>, <<"s", "i", "n", "g", "l", "e", "/", "i", "n", "d", "i", "v", "i", "d", "u", "a", "l">>}
           ELSE {})
       \cup
          (IF AnyIn(n, {<<"d", "b", "l">>, <<"d", "u", "p", "l", "o">>, <<"d", "o", "u", "b", "l", "e">>, <<"c", "a", "s", "a", "l">>})
           THEN {<<"d", "b", "l">>, <<"d", "u", "p", "l", "o">>, <<"d", "o", "u", "b", "l", "e">>, <<"c", "a", "s", "a", "l">>, <<"s", "/", "d">>}
           ELSE {})
       \cup
          (IF AnyIn(n, {<<"t", "w", "i", "n">>, <<"d", "u", "a", "s", " ", "c", "a", "m", "a", "s">>, <<"2", " ", "t", "w", "i", "n">>, <<"s", "o", "l", "t", "e", "i", "r", "o">>})
           THEN {<<"t", "w", "i", "n">>, <<"2", " ", "t", "w", "i", "n">>, <<"d", "u", "a", "s", " ", "c", "a", "m", "a", "s">>, <<"s", "o", "l", "t", "e", "i", "r", "o">>, <<"2", " ", "s", "o", "l", "t", "e", "i", "r", "o">>, <<"d", "u", "a", "s", " ", "d", "e", " ", "s", "o", "l", "t", "e", "i", "r", "o">>}
           ELSE {})
       \cup
          (IF AnyIn(n, {<<"t", "r", "i", "p">>, <<"t", "r", "i", "p", "l">>, <<"3">>})
           THEN {<<"t", "r", "i", "p", "l", "o">>, <<"t", "r", "i", "p", "l", "e">>, <<"3">>, <<"t", "r", "p">>}
           ELSE {})
       \cup
          (IF AnyIn(n, {<<"q", "u", "a", "d">>, <<"q", "u", "a", "d", "r", "u">>, <<"4">>})
           THEN {<<"q", "u", "a", "d", "r", "u", "p", "l", "o">>, <<"q", "u", "a", "d", "r", "u", "p", "l", "e">>, <<"4">>, <<"q", "d", "p">>}
           ELSE {})
       \cup (IF AnyIn(n, {<<"k", "i", "n", "g">>}) THEN {<<"k", "i", "n", "g">>} ELSE {})
       \cup (IF AnyIn(n, {<<"q", "u", "e", "e", "n">>}) THEN {<<"q", "u", "e", "e", "n">>} ELSE {})
       \cup (IF AnyIn(n, {<<"c", "a", "s", "a", "l">>}) THEN {<<"c", "a", "s", "a", "l">>} ELSE {})

_config_keywords(cfg) == KeywordsOf(_norm(cfg))

\* The aliases of _category_match_score: <<key, values>>.
CategoryAliases ==
  { <<<<"s", "t", "a", "n", "d", "a", "r", "d">>, {<<"s", "t", "d">>, <<"s", "t", "a", "n", "d", "a", "r", "d">>}>>,
    <<<<"s", "u", "p", "e", "r", "i", "o", "r">>, {<<"s", "u", "p", "e", "r", "i", "o", "r">>}>>,
    <<<<"l", "u", "x", "o">>, {<<"l", "u", "x", "o">>, <<"d", "e", "l", "u", "x", "e">>, <<"l", "u", "x">>}>>,
    <<<<"d", "e", "l", "u", "x", "e">>, {<<"d", "e", "l", "u", "x", "e">>, <<"l", "u", "x", "o">>}>>,
    <<<<"c", "l", "a", "s", "s", "i", "c">>, {<<"c", "l", "a", "s", "s", "i", "c">>}>>,
    <<<<"m", "a", "s", "t", "e", "r">>, {<<"m", "a", "s", "t", "e", "r">>}>>,
    <<<<"p", "r", "e", "m", "i", "u", "m">>, {<<"p", "r", "e", "m", "i", "u", "m">>}>> }

\* The words of the header test "^(categoria|apto\.?|...)\b".
HeaderWords ==
  {<<"c", "a", "t", "e", "g", "o", "r", "i", "a">>, <<"a", "p", "t", "o">>, <<"a", "p", "t", "o", ".">>, <<"a", "p", "a", "r", "t", "a", "m", "e", "n", "t", "o">>, <<"s", "t", "a", "n", "d", "a", "r", "d">>, <<"s", "u", "p", "e", "r", "i", "o", "r">>, <<"l", "u", "x", "o">>, <<"d", "e", "l", "u", "x", "e">>, <<"c", "l", "a", "s", "s", "i", "c">>}

\* re.match(r"^(...)\b", nline): a header word at the start, then a word
\* boundary.
LooksLikeHeader(nline) ==
  \E w \in HeaderWords :
    /\ StartsWith(nline, w)
    /\ IsWordChar(w[Len(w)]) # IsWordChar(CharAt(nline, Len(w) + 1))

CategoryScoreOf(nline, ncat) ==
  (IF ncat # <<>> /\ Contains(nline, ncat) THEN 2 ELSE 0)
  + Cardinality({a \in CategoryAliases :
                   Contains(ncat, a[1]) /\ AnyIn(nline, a[2])})
  + (IF LooksLikeHeader(nline) THEN 1 ELSE 0)

_category_match_score(line, categoria) ==
  CategoryScoreOf(_norm(line), _norm(categoria))

\* "if any(w in nline for w in l) and any(w in ncfg for w in c): score += 1"
Bonus(nline, ncfg, l, c) == IF AnyIn(nline, l) /\ AnyIn(ncfg, c) THEN 1 ELSE 0

ConfigScoreOf(nline, keys, ncfg) ==
  IF keys = {} THEN 0
  ELSE Cardinality({k \in keys : Contains(nline, k)})
       + Bonus(nline, ncfg,
               {<<"s", "i", "n", "g", "l", "e">>, <<"i", "n", "d", "i", "v", "i", "d", "u", "a", "l">>},
               {<<"s", "i", "n", "g", "l", "e">>, <<"i", "n", "d", "i", "v", "i", "d", "u", "a", "l">>, <<"s", "g", "l">>})
       + Bonus(nline, ncfg,
               {<<"d", "u", "p", "l", "o">>, <<"d", "o", "u", "b", "l", "e">>, <<"c", "a", "s", "a", "l">>},
               {<<"d", "u", "p", "l", "o">>, <<"d", "o", "u", "b", "l", "e">>, <<"c", "a", "s", "a", "l">>, <<"d", "b", "l">>})
       + Bonus(nline, ncfg, {<<"t", "w", "i", "n">>}, {<<"t", "w", "i", "n">>})
       + Bonus(nline, ncfg,
               {<<"t", "r", "i", "p", "l", "o">>, <<"t", "r", "i", "p", "l", "e">>},
               {<<"t", "r", "i", "p">>, <<"t", "r", "i", "p", "l">>})
       + Bonus(nline, ncfg, {<<"q", "u", "a", "d", "r", "u">>, <<"4">>},
               {<<"q", "u", "a", "d", "r", "u">>, <<"4">>})

_config_match_score(line, cfg) ==
  ConfigScoreOf(_norm(line), _config_keywords(cfg), _norm(cfg))

\* --------------------------------------------- refine_description_for_quote

\* The characters of the model in code point order: how Python compares str.
CodeOrder ==
  <<"\t", "\n", " ", "$", "(", ")", "+", ",", "-", ".", "/", "0", "1",
     "2", "3", "4", "5", "6", "7", "8", "9", ":", ";", "?", "@", "A", "B",
     "C", "D", "E", "F", "G", "H", "I", "J", "K", "L", "M", "N", "O", "P",
     "Q", "R", "S", "T", "U", "V", "W", "X", "Y", "Z", "[", "]", "_", "a",
     "b", "c", "d", "e", "f", "g", "h", "i", "j", "k", "l", "m", "n", "o",
     "p", "q", "r", "s", "t", "u", "v", "w", "x", "y", "z", "|", "<ndash>",
     "<bull>", "<ud800>">>

CharCode(c) == CHOOSE i \in 1..Len(CodeOrder) : CodeOrder[i] = c

\* a < b as Python compares two str: at the first offset where they differ,
\* or a is a proper prefix of b.
StrLess(a, b) ==
  LET diff == {i \in 1..Len(a) : i > Len(b) \/ a[i] # b[i]}
  IN IF diff = {} THEN Len(a) < Len(b)
     ELSE Min(diff) <= Len(b) /\ CharCode(a[Min(diff)]) < CharCode(b[Min(diff)])

\* x < y for the tuples (score, -len(line), line) that are sorted.
ScoredLess(x, y) ==
  \/ x[1] < y[1]
  \/ x[1] = y[1] /\ x[2] < y[2]
  \/ x[1] = y[1] /\ x[2] = y[2] /\ StrLess(x[3], y[3])

\* scored.sort(reverse=True); scored[0]
FirstOfSorted(scored) ==
  CHOOSE x \in Range(scored) : \A y \in Range(scored) : ~ScoredLess(x, y)

\* f"{cat}: {c}", or the side that is not blank, or "".
SynthFrom(cat, c) ==
  IF cat # <<>> /\ c # <<>> THEN cat \o <<":", " ">> \o c
  ELSE IF cat # <<>> THEN cat
  ELSE c

\* total without the weight of the category.
LineTotal_Unweighted(ln, categoria, cfg) ==
  _category_match_score(ln, categoria) + _config_match_score(ln, cfg)

\* "total = cat_score * 3 + cfg_score"
LineTotal(ln, categoria, cfg) ==
  _category_match_score(ln, categoria) * 3 + _config_match_score(ln, cfg)

\* The first loop over lines: the tuples of the lines that score.
ScoredLines(lines, categoria, cfg) ==
  SelectSeq([i \in 1..Len(lines) |->
               <<LineTotal(lines[i], categoria, cfg), -Len(lines[i]), lines[i]>>],
            LAMBDA t : Strip(t[3]) # <<>> /\ t[1] > 0)

\* The second loop: the tuples of the lines that match the category.
OnlyCatLines(lines, categoria) ==
  SelectSeq([i \in 1..Len(lines) |->
               <<_category_match_score(lines[i], categoria), -Len(lines[i]), lines[i]>>],
            LAMBDA t : t[1] > 0)

\* Steps 3 to 5 of refine_description_for_quote, the lists built.
BestLine(scored, only_cat, categoria, cfg) ==
  IF scored # <<>> THEN Strip(FirstOfSorted(scored)[3])
  ELSE IF only_cat # <<>> THEN Strip(FirstOfSorted(only_cat)[3])
  ELSE SynthFrom(Strip(categoria), Strip(cfg))

RefineLines(lines, categoria, cfg) ==
  IF lines = <<>> THEN <<>>
  ELSE BestLine(ScoredLines(lines, categoria, cfg),
                OnlyCatLines(lines, categoria), categoria, cfg)

refine_description_for_quote(desc_block, categoria, cfg) ==
  IF desc_block = <<>> THEN <<>>
  ELSE RefineLines(
         _line_split_chunks(_remove_hotel_wide_info(strip_price_tokens(desc_block))),
         categoria, cfg)

\* str(quote.get(key, "") or "")
StrOrEmpty(quote, key) ==
  LET v == DictGet(quote, key, EmptyStr)
  IN IF Truthy(v) THEN StrOf(v) ELSE <<>>

synthesize_room_description(quote) ==
  SynthFrom(Strip(StrOrEmpty(quote, "Categoria do quarto")),
            Strip(StrOrEmpty(quote, "Configuracao do quarto")))

\* ------------------------------------------------ enrich_and_validate_quote

\* "for field in HEADER_FIELDS: if field not in quote: quote[field] = ''"
BackfillNothing(quote) == quote

Backfill(quote) ==
  [k \in (DOMAIN quote) \cup Range(HEADER_FIELDS) |->
     IF k \in DOMAIN quote THEN quote[k] ELSE EmptyStr]

\* "if not str(quote.get(key, '')).strip(): found = ...; if found: quote[key] = found"
EmailFallbackAlways(quote, key, found) ==
  IF found # <<>> THEN DictSet(quote, key, PyStr(found)) ELSE quote

EmailFallback(quote, key, found) ==
  IF Strip(StrOf(DictGet(quote, key, EmptyStr))) = <<>> /\ found # <<>>
  THEN DictSet(quote, key, PyStr(found))
  ELSE quote

\* "if not desc_refined: desc_refined = synthesize_room_description(quote)"
SetDescription(quote, desc_refined) ==
  DictSet(quote, "Descricao dos Quartos",
          PyStr(IF desc_refined = <<>> THEN synthesize_room_description(quote)
                ELSE desc_refined))

\* The description step: strip, refine, synthesize when nothing is left.
DescriptionStep(quote) ==
  SetDescription(quote,
    Strip(refine_description_for_quote(
            strip_price_tokens(StrOrEmpty(quote, "Descricao dos Quartos")),
            StrOrEmpty(quote, "Categoria do quarto"),
            StrOrEmpty(quote, "Configuracao do quarto"))))

\* From the price on: the record, or the exception coerce_price raised.
EnrichPriced(quote, price, body_text) ==
  IF price.exc # "" THEN Raise(price.exc)
  ELSE Ok(DescriptionStep(
            EmailFallback(
              EmailFallback(DictSet(quote, "Preco (num)", price.val),
                            "Email do remetente (top-level)",
                            extract_top_from_email(body_text)),
              "Email do fornecedor",
              extract_supplier_email_heuristic(body_text))))

EnrichFilled(quote, body_text) ==
  EnrichPriced(quote, coerce_price(DictGet(quote, "Preco (num)", PyNone)), body_text)

enrich_and_validate_quote(quote, body_text) ==
  EnrichFilled(Backfill(normalize_key_aliases(quote)), body_text)

\* -------------------------------------------------------- the LLM response

\* The text of a response is a sequence of tokens: the brackets, braces,
\* commas and colons of JSON, white space, the markdown fence "<fence>" and
\* its "json" tag, prose, the scalar literals of ScalarLits, and the object atoms of
\* ObjectAtoms, each the text of one JSON object "{...}" whose members are
\* scalars and which holds no bracket.

\* A candidate with every field set, and the ones derived from it.
CandComplete ==
  [k \in Range(HEADER_FIELDS) |->
     CASE k = "Preco (num)" -> PyInt(900)
       [] k = "Categoria do quarto" -> PyStr(<<"L", "u", "x", "o">>)
       [] k = "Configuracao do quarto" -> PyStr(<<"t", "w", "i", "n">>)
       [] k = "Descricao dos Quartos" -> PyStr(<<"L", "u", "x", "o", " ", "t", "w", "i", "n">>)
       [] OTHER -> PyStr(<<"x">>)]

CandIncomplete ==
  [k \in {"Categoria do quarto", "Configuracao do quarto", "Preco (num)"} |->
     CASE k = "Preco (num)" -> PyStr(<<"9", "7", "5", ",", "0", "0">>)
       [] k = "Categoria do quarto" -> PyStr(<<"L", "u", "x", "o">>)
       [] OTHER -> PyStr(<<"S", "G", "L", "/", "D", "B", "L">>)]

ObjectAtoms ==
  [tok \in {"{complete}", "{incomplete}", "{tagged}", "{big}", "{surrogate}",
            "{sourced}"} |->
     CASE tok = "{complete}" -> CandComplete
       [] tok = "{sourced}" ->
            DictSet(DictSet(CandComplete, "_source_raw",
                            PyStr(<<"e", "l", "s", "e", "w", "h", "e", "r", "e">>)),
                    "_llm_model", PyStr(<<"o", "t", "h", "e", "r">>))
       [] tok = "{incomplete}" -> CandIncomplete
       [] tok = "{tagged}" ->
            DictSet(CandComplete, "_missing_fields", PyStr(<<"x">>))
       [] tok = "{big}" -> DictSet(CandComplete, "Preco (num)", PyBigInt)
       [] OTHER -> DictSet(CandComplete, "Cidade", PyStr(<<Surrogate>>))]

\* The scalar literals of the responses and what json.loads makes of each.
ScalarLits ==
  [tok \in {"null", "5", "\"x\"", "\"Cotacoes\"", "\"quotes\"", "\"note\""} |->
     CASE tok = "null" -> PyNone
       [] tok = "5" -> PyInt(5)
       [] tok = "\"x\"" -> PyStr(<<"x">>)
       [] tok = "\"Cotacoes\"" -> PyStr(<<"C", "o", "t", "a", "c", "o", "e", "s">>)
       [] tok = "\"quotes\"" -> PyStr(<<"q", "u", "o", "t", "e", "s">>)
       [] OTHER -> PyStr(<<"n", "o", "t", "e">>)]

\* The key a string literal names in an object.
KeyOf(tok) ==
  CASE tok = "\"x\"" -> "x"
    [] tok = "\"Cotacoes\"" -> "Cotacoes"
    [] tok = "\"quotes\"" -> "quotes"
    [] OTHER -> "note"

\* s.find(c) and s.rfind(c) for the tokens whose text holds the character:
\* the offset, 0 when there is none (Python's -1).
Find(s, toks) ==
  IF \E i \in 1..Len(s) : s[i] \in toks
  THEN Min({i \in 1..Len(s) : s[i] \in toks}) ELSE 0

RFind(s, toks) ==
  IF \E i \in 1..Len(s) : s[i] \in toks
  THEN Max({i \in 1..Len(s) : s[i] \in toks}) ELSE 0

\* The slice of sanitize_json_only, the four offsets found.
SanitizeSlice(s, start, end, start_obj, end_obj) ==
  IF start = 0 \/ end = 0 \/ end < start
  THEN IF start_obj # 0 /\ end_obj # 0 /\ end_obj >= start_obj
       THEN SubSeq(s, start_obj, end_obj)
       ELSE s
  ELSE SubSeq(s, start, end)

\* An object atom starts with "{" and ends with "}".
sanitize_json_only(s) ==
  SanitizeSlice(s, Find(s, {"["}), RFind(s, {"]"}),
                Find(s, {"{"} \cup DOMAIN ObjectAtoms),
                RFind(s, {"}"} \cup DOMAIN ObjectAtoms))

\* The re.sub of parse_llm_to_list removes the fence (three backquotes,
\* the token "<fence>") that opens the text, with its tag "json" and the
\* white space after it, ...
DropOpeningFence(s) ==
  IF CharAt(s, 1) # "<fence>" THEN s
  ELSE IF CharAt(s, 2) = "json"
       THEN SubSeq(s, 3 + RunLen(s, 3, Whitespace), Len(s))
  ELSE SubSeq(s, 2 + RunLen(s, 2, Whitespace), Len(s))

\* ... and the fence that ends it, with the white space before it.
DropClosingFence(s) ==
  IF s # <<>> /\ s[Len(s)] = "<fence>" THEN RStrip(SubSeq(s, 1, Len(s) - 1)) ELSE s

StripFences(s) == DropClosingFence(DropOpeningFence(s))

\* ---------------------------------------------------------------- json.loads

\* The offset of the first token at or after i that is not white space.
Skip(s, i) == i + RunLen(s, i, Whitespace)

\* What the decoder makes of a value: kind is "scalar" (v a value), "array"
\* (v the sequence of its items) or "dict" (v maps each key to its member);
\* next is the offset after the value.
NoParse == [ok |-> FALSE, kind |-> "", v |-> <<>>, next |-> 0]
Parsed(kind, v, next) == [ok |-> TRUE, kind |-> kind, v |-> v, next |-> next]
Item(p) == [kind |-> p.kind, v |-> p.v]

RECURSIVE ParseValue(_, _)
RECURSIVE ParseItems(_, _, _)
RECURSIVE ItemsAfter(_, _, _)
RECURSIVE ParseMembers(_, _, _)
RECURSIVE MembersAfter(_, _, _, _)

\* The value that starts at offset i.
ParseValue(s, i) ==
  IF CharAt(s, i) \in DOMAIN ScalarLits
  THEN Parsed("scalar", ScalarLits[s[i]], i + 1)
  ELSE IF CharAt(s, i) \in DOMAIN ObjectAtoms
  THEN Parsed("dict",
              [k \in DOMAIN ObjectAtoms[s[i]] |->
                 [kind |-> "scalar", v |-> ObjectAtoms[s[i]][k]]],
              i + 1)
  ELSE IF CharAt(s, i) = "["
  THEN IF CharAt(s, Skip(s, i + 1)) = "]"
       THEN Parsed("array", <<>>, Skip(s, i + 1) + 1)
       ELSE ParseItems(s, Skip(s, i + 1), <<>>)
  ELSE IF CharAt(s, i) = "{"
  THEN IF CharAt(s, Skip(s, i + 1)) = "}"
       THEN Parsed("dict", <<>>, Skip(s, i + 1) + 1)
       ELSE ParseMembers(s, Skip(s, i + 1), <<>>)
  ELSE NoParse

\* The items of an array from offset i, after the items read so far.
ParseItems(s, i, items) == ItemsAfter(s, ParseValue(s, i), items)

ItemsAfter(s, p, items) ==
  IF ~p.ok THEN NoParse
  ELSE IF CharAt(s, Skip(s, p.next)) = ","
  THEN ParseItems(s, Skip(s, Skip(s, p.next) + 1), Append(items, Item(p)))
  ELSE IF CharAt(s, Skip(s, p.next)) = "]"
  THEN Parsed("array", Append(items, Item(p)), Skip(s, p.next) + 1)
  ELSE NoParse

\* The members of an object from offset i: a string, a colon, a value.
ParseMembers(s, i, fields) ==
  IF /\ CharAt(s, i) \in DOMAIN ScalarLits
     /\ ScalarLits[s[i]].t = "str"
     /\ CharAt(s, Skip(s, i + 1)) = ":"
  THEN MembersAfter(s, KeyOf(s[i]),
                    ParseValue(s, Skip(s, Skip(s, i + 1) + 1)), fields)
  ELSE NoParse

MembersAfter(s, key, p, fields) ==
  IF ~p.ok THEN NoParse
  ELSE IF CharAt(s, Skip(s, p.next)) = ","
  THEN ParseMembers(s, Skip(s, Skip(s, p.next) + 1), DictSet(fields, key, Item(p)))
  ELSE IF CharAt(s, Skip(s, p.next)) = "}"
  THEN Parsed("dict", DictSet(fields, key, Item(p)), Skip(s, p.next) + 1)
  ELSE NoParse

\* The text holds one value and white space only.
LoadsAll(s, p) ==
  IF p.ok /\ Skip(s, p.next) > Len(s) THEN Ok(Item(p))
  ELSE Raise("JSONDecodeError")

json_loads(s) == LoadsAll(s, ParseValue(s, Skip(s, 1)))

\* ------------------------------------------------------- parse_llm_to_list

\* A member as a field of a candidate: a scalar, or an array or object
\* (the responses of the driver hold none that is empty).
AsField(member) == IF member.kind = "scalar" THEN member.v ELSE PyList

Candidate(fields) == [k \in DOMAIN fields |-> AsField(fields[k])]

\* [x for x in items if isinstance(x, dict)]
OnlyDicts(items) ==
  [i \in 1..Len(SelectSeq(items, LAMBDA x : x.kind = "dict")) |->
     Candidate(SelectSeq(items, LAMBDA x : x.kind = "dict")[i].v)]

\* parse_llm_to_list from "if isinstance(obj, list)" on.
ListOf(obj) ==
  IF obj.kind = "array" THEN OnlyDicts(obj.v)
  ELSE IF obj.kind = "dict"
  THEN IF "Cotacoes" \in DOMAIN obj.v /\ obj.v["Cotacoes"].kind = "array"
       THEN OnlyDicts(obj.v["Cotacoes"].v)
       ELSE <<Candidate(obj.v)>>
  ELSE <<>>

ListOrEmpty(loaded) ==
  [exc |-> "", val |-> IF loaded.exc # "" THEN <<>> ELSE ListOf(loaded.val)]

\* "try: obj = json.loads(cleaned) / except: raise ValueError(...)"
ListOrRaise(loaded) ==
  IF loaded.exc # "" THEN [exc |-> "ValueError", val |-> <<>>]
  ELSE [exc |-> "", val |-> ListOf(loaded.val)]

\* The list of candidates, or the exception.
parse_llm_to_list_Raw(text) == ListOrRaise(json_loads(text))

parse_llm_to_list(text) ==
  ListOrRaise(json_loads(StripFences(Strip(sanitize_json_only(text)))))

\* =================================================================== state

VARIABLES
  \* --- one call of the record functions on one candidate (SpecQuote)
  q_pc,        \* "new", "checked", "enriched", "raised", "done"
  q_in,        \* the candidate record, as the LLM response holds it
  q_body,      \* the body text of the e-mail
  q_check,     \* complete_check(q_in, HEADER_FIELDS)
  q_out,       \* enrich_and_validate_quote(q_in, q_body): the record
  q_exc,       \* ... or the exception it raised ("" when none)
  q_out_check, \* complete_check(q_out, HEADER_FIELDS)
  q_alias,     \* normalize_key_aliases(q_in)
  q_alias2,    \* normalize_key_aliases(q_alias)
  q_found,     \* what the two e-mail heuristics return on q_body
  \* --- one call of parse_llm_to_list on one response (SpecParse)
  p_pc,        \* "new", "parsed"
  p_text,      \* the text of the response
  p_out,       \* parse_llm_to_list(p_text): the list, or the exception
  \* --- main (Spec)
  pc,            \* "start", "llm", "parse", "enrich", "save", "saved", "crashed"
  files,         \* the sorted list of input paths
  file_no,       \* the index in files of the file in hand
  aggregated,    \* the aggregate log
  ok_quotes,
  bad_quotes,
  jsonl,         \* the rows of the JSONL file, once saved
  escaped,       \* the exception that left the main loop (<<>> when none)
  \* --- process_file
  body_text,
  llm_text,
  quotes,        \* the candidates parse_llm_to_list returned
  idx,           \* the index of the candidate in hand
  results,
  out_complete,  \* the complete sink: file name -> content
  out_incomplete,
  \* --- call_llm
  attempt,
  outcomes,      \* what each attempt of the call did: "ok" or "err"
  slept,         \* the waits of the call, in order
  llm_raised,    \* the exception the call raised (<<>> when none)
  \* --- history
  origin,        \* for each entry of aggregated: its file, item and kind
  written,       \* the write_text calls on the sinks, in order
  hist           \* for each file done with: how its read and its call ended

qauxvars == <<q_alias, q_alias2, q_found>>
qvars == <<q_pc, q_in, q_body, q_check, q_out, q_exc, q_out_check, qauxvars>>
pvars == <<p_pc, p_text, p_out>>

mainvars == <<pc, files, file_no, aggregated, ok_quotes, bad_quotes, jsonl, escaped>>
filevars == <<body_text, llm_text, quotes, idx, results>>
sinkvars == <<out_complete, out_incomplete>>
llmvars == <<attempt, outcomes, slept, llm_raised>>
histvars == <<origin, written, hist>>
dvars == <<mainvars, filevars, sinkvars, llmvars, histvars>>
vars == <<qvars, pvars, dvars>>

NoCheck == [complete |-> FALSE, missing |-> <<>>]

\* ----------------------------------------------------- inputs of SpecQuote

PriceAlphabet == {"1", ".", ",", " ", "x"}

\* All the strings over PriceAlphabet of length at most n.
RECURSIVE StringsUpTo(_, _)
StringsUpTo(A, n) ==
  IF n = 0 THEN {<<>>}
  ELSE LET shorter == StringsUpTo(A, n - 1)
       IN shorter \cup {Append(cs, c) : cs \in shorter, c \in A}

PriceValues ==
  {PyStr(cs) : cs \in StringsUpTo(PriceAlphabet, MaxPriceLen)}
  \cup {PyNone, PyInt(900), PyInt(0), PyBool(TRUE), PyFloat(9755, 10),
        PyBigInt, PyList,
        PyStr(<<"R", "$", " ", "9", "7", "5", ",", "0", "0">>), PyStr(<<"9", "7", "5", ",", "0", "0">>),
        PyStr(<<"1", ".", "2", "3", "4", ",", "5", "6">>), PyStr(<<"1", ".", "2", "3", "4", ".", "5", "6", "7", ",", "8", "9">>),
        PyStr(<<"1", "2", "3", "4", ".", "5", "6">>),
        PyStr(<<"n", "o", "t", " ", "a", " ", "n", "u", "m", "b", "e", "r">>)}

\* What a field of a candidate can hold, less "absent".
FieldValues ==
  {PyNone, EmptyStr, PyStr(<<" ">>), PyStr(<<"x">>), PyInt(0), PyList}

AddrHotel == <<"r", "@", "h", "o", "t", "e", "l", "x", ".", "c", "o", "m">>
AddrOwn == <<"b", "@", "P", "a", "r", "r", "o", "t", "T", "r", "i", "p", "s", ".", "c", "o", "m">>
AddrOther == <<"a", "@", "b", ".", "c", "o">>
AddrGmail == <<"c", "@", "G", "M", "A", "I", "L", ".", "C", "O", "M">>

Bodies ==
  { Body(<<>>, 0),
    Body(<<BodyLine("", <<AddrOwn>>), BodyLine("from:", <<AddrOwn, AddrHotel>>)>>, 2),
    Body(<<BodyLine("", <<AddrOther>>), BodyLine("to:", <<AddrHotel>>)>>, 1) }

\* More bodies for the e-mail fields: every address on an ignored domain;
\* an ignored address on the "to:" line and the supplier below it; an
\* address after the first 3000 characters only.
EmailBodies ==
  Bodies \cup
  { Body(<<BodyLine("from:", <<AddrOwn>>), BodyLine("", <<AddrGmail>>)>>, 2),
    Body(<<BodyLine("to:", <<AddrOwn>>), BodyLine("", <<AddrGmail, AddrHotel>>)>>, 2),
    Body(<<BodyLine("", <<>>), BodyLine("from:", <<AddrHotel>>)>>, 1) }

\* A record with every canonical field set to v.
AllFields(v) == [k \in Range(HEADER_FIELDS) |-> v]

\* dct with the keys of S removed
Without(dct, S) == [k \in (DOMAIN dct) \ S |-> dct[k]]

\* The candidates that vary three fields (the first, a middle one and the
\* last of HEADER_FIELDS) over every value and "absent", on two backgrounds:
\* every other field "x", and no other field.
VaryFields == {"Timestamp", "Cidade", "Email do remetente (top-level)"}

VariedCandidates ==
  LET Choices == [VaryFields -> FieldValues \cup {[t |-> "absent", s |-> <<>>, n |-> 0, d |-> 1]}]
      build(base, c) ==
        [k \in ((DOMAIN base) \ VaryFields) \cup {f \in VaryFields : c[f].t # "absent"} |->
           IF k \in VaryFields THEN c[k] ELSE base[k]]
  IN {build(AllFields(PyStr(<<"x">>)), c) : c \in Choices}
     \cup {build(EmptyDict, c) : c \in Choices}

PriceCandidates ==
  {DictSet(AllFields(PyStr(<<"x">>)), "Preco (num)", v) : v \in PriceValues}
  \cup {Without(AllFields(PyStr(<<"x">>)), {"Preco (num)"})}

\* The candidates that hold deprecated keys: every subset of the old keys,
\* without the new keys or with all three of them.
OldValue(k) == PyStr(<<"o", "l", "d", ":", k>>)
NewValue(k) == PyStr(<<"n", "e", "w", ":", k>>)
AliasTargets == {OLD_TO_NEW_KEYS[i][2] : i \in 1..Len(OLD_TO_NEW_KEYS)}

AliasCandidates ==
  {[k \in S \cup T |-> IF k \in S THEN OldValue(k) ELSE NewValue(k)] :
     S \in SUBSET OldKeys, T \in {{}, AliasTargets}}

\* Two lines of one score and two lengths, in both orders.
TiedTexts ==
  { PyStr(<<"L", "u", "x", "o", " ", "v", "i", "s", "t", "a", " ", "m", "a", "r", ":", "\n", "L", "u", "x", "o", ":">>),
    PyStr(<<"L", "u", "x", "o", ":", "\n", "L", "u", "x", "o", " ", "v", "i", "s", "t", "a", " ", "m", "a", "r", ":">>) }

\* A line that names the category and a line that names the configuration
\* only, with a low and with a high configuration score.
WeighedTexts ==
  { PyStr(<<"L", "u", "x", "o", ":", "\n", "(", "t", "w", "i", "n", ")">>),
    PyStr(<<"L", "u", "x", "o", ":", "\n", "(", "t", "w", "i", "n", " ", "d", "u", "a", "s", " ", "c", "a", "m", "a", "s", " ", "d", "u", "a", "s", " ", "d", "e", " ", "s", "o", "l", "t", "e", "i", "r", "o", ")">>),
    PyStr(<<"s", "u", "i", "t", "e", " ", "l", "u", "x", ":", "\n", "(", "t", "w", "i", "n", " ", "d", "u", "a", "s", " ", "c", "a", "m", "a", "s", " ", "d", "u", "a", "s", " ", "d", "e", " ", "s", "o", "l", "t", "e", "i", "r", "o", ")">>) }

DescTexts ==
  { PyStr(<<"S", "t", "a", "n", "d", "a", "r", "d", ":", " ", "S", "G", "L", "/", "D", "B", "L", "\n", "-", " ", "L", "u", "x", "o", ":", " ", "t", "w", "i", "n", " ", "v", "i", "s", "t", "a", " ", "m", "a", "r">>),
    PyStr(<<"L", "u", "x", "o", " ", "R", "$", " ", "9", "7", "5", ",", "0", "0">>),
    PyStr(<<"c", "a", "f", "e", " ", "d", "a", " ", "m", "a", "n", "h", "a", " ", "i", "n", "c", "l", "u", "s", "o">>),
    PyStr(<<"v", "i", "s", "t", "a", " ", "m", "a", "r">>),
    PyStr(<<" ">>), EmptyStr, PyNone, PyInt(0), PyList }
  \cup TiedTexts \cup WeighedTexts

CatTexts == {EmptyStr, PyStr(<<"L", "u", "x", "o">>), PyStr(<<"S", "t", "a", "n", "d", "a", "r", "d">>)}
CfgTexts == {EmptyStr, PyStr(<<"t", "w", "i", "n">>), PyNone}

DescCandidates ==
  {[k \in Range(HEADER_FIELDS) |->
      CASE k = "Descricao dos Quartos" -> dsc
        [] k = "Categoria do quarto" -> cat
        [] k = "Configuracao do quarto" -> cfg
        [] OTHER -> PyStr(<<"x">>)] :
     dsc \in DescTexts, cat \in CatTexts, cfg \in CfgTexts}
  \cup {Without(AllFields(PyStr(<<"x">>)), {"Descricao dos Quartos"})}

\* Candidates with keys that are no field: the keys the driver itself uses.
ExtraKeyCandidates ==
  {DictSet(AllFields(PyStr(<<"x">>)), k, PyList) :
     k \in {"_missing_fields", "_error", "_source_raw", "note"}}

\* The candidates that vary the two e-mail fields over every value and
\* "absent".
EmailFields == {"Email do fornecedor", "Email do remetente (top-level)"}

EmailCandidates ==
  LET Choices == [EmailFields -> FieldValues \cup {[t |-> "absent", s |-> <<>>, n |-> 0, d |-> 1]}]
  IN {[k \in (Range(HEADER_FIELDS) \ EmailFields) \cup {f \in EmailFields : c[f].t # "absent"} |->
        IF k \in EmailFields THEN c[k] ELSE PyStr(<<"x">>)] : c \in Choices}

\* The end-to-end scenario: the supplier's address on the "from:" line of
\* the body, and a candidate with its category, its configuration and its
\* price, every other field blank in one of the four ways (no key, "",
\* white space, null).
AddrReservas == <<"r", "e", "s", "e", "r", "v", "a", "s", "@", "h", "o", "t", "e", "l", "x", ".", "c", "o", "m">>

ScenarioBody ==
  Body(<<BodyLine("", <<>>), BodyLine("from:", <<AddrReservas>>)>>, 2)

ScenarioGiven ==
  [k \in {"Categoria do quarto", "Configuracao do quarto", "Preco (num)"} |->
     CASE k = "Categoria do quarto" -> PyStr(<<"L", "u", "x", "o">>)
       [] k = "Configuracao do quarto" -> PyStr(<<"S", "G", "L", "/", "D", "B", "L">>)
       [] OTHER -> PyStr(<<"9", "7", "5", ",", "0", "0">>)]

ScenarioCandidates ==
  {ScenarioGiven} \cup
  {[k \in Range(HEADER_FIELDS) |->
      IF k \in DOMAIN ScenarioGiven THEN ScenarioGiven[k] ELSE v] :
     v \in {EmptyStr, PyStr(<<" ">>), PyNone}}

QuoteCandidates ==
  VariedCandidates \cup PriceCandidates \cup AliasCandidates
  \cup DescCandidates \cup ExtraKeyCandidates

\* --------------------------------------------------------------- SpecQuote

NoFound == [top |-> <<>>, supplier |-> <<>>]
NoList == [exc |-> "", val |-> <<>>]

\* No call of the record functions in hand.
QIdle ==
  /\ q_pc = "idle" /\ q_in = EmptyDict /\ q_body = Body(<<>>, 0)
  /\ q_check = NoCheck /\ q_out = EmptyDict /\ q_exc = ""
  /\ q_out_check = NoCheck
  /\ q_alias = EmptyDict /\ q_alias2 = EmptyDict /\ q_found = NoFound

\* No call of parse_llm_to_list in hand.
PIdle == p_pc = "idle" /\ p_text = <<>> /\ p_out = NoList

\* main before it starts.
DIdle ==
  /\ pc = "idle" /\ files = <<>> /\ file_no = 0
  /\ aggregated = <<>> /\ ok_quotes = 0 /\ bad_quotes = 0
  /\ jsonl = [saved |-> FALSE, rows |-> <<>>] /\ escaped = <<>>
  /\ body_text = Body(<<>>, 0) /\ llm_text = <<>> /\ quotes = <<>>
  /\ idx = 0 /\ results = <<>>
  /\ out_complete = <<>> /\ out_incomplete = <<>>
  /\ attempt = 0 /\ outcomes = <<>> /\ slept = <<>> /\ llm_raised = <<>>
  /\ origin = <<>> /\ written = <<>> /\ hist = <<>>

QInit ==
  /\ q_pc = "new"
  /\ \/ q_in \in QuoteCandidates /\ q_body \in Bodies
     \/ q_in \in EmailCandidates /\ q_body \in EmailBodies
     \/ q_in \in ScenarioCandidates /\ q_body = ScenarioBody
  /\ q_check = NoCheck
  /\ q_out = EmptyDict
  /\ q_exc = ""
  /\ q_out_check = NoCheck
  /\ q_alias = EmptyDict /\ q_alias2 = EmptyDict /\ q_found = NoFound
  /\ PIdle
  /\ DIdle

\* complete_check on the candidate as it is.
QCheck ==
  /\ q_pc = "new"
  /\ q_check' = complete_check(q_in, HEADER_FIELDS)
  /\ q_pc' = "checked"
  /\ UNCHANGED <<q_in, q_body, q_out, q_exc, q_out_check, qauxvars, pvars,
                 dvars>>

\* The call returns r: a record, or an exception.
QReturn(r) ==
  /\ q_exc' = r.exc
  /\ q_out' = IF r.exc = "" THEN r.val ELSE EmptyDict
  /\ q_pc' = IF r.exc = "" THEN "enriched" ELSE "raised"

\* enrich_and_validate_quote on the candidate.
QEnrich ==
  /\ q_pc = "checked"
  /\ QReturn(enrich_and_validate_quote(q_in, q_body))
  /\ UNCHANGED <<q_in, q_body, q_check, q_out_check, qauxvars, pvars,
                 dvars>>

\* complete_check on the enriched record, as process_file calls it.
QCheckOut ==
  /\ q_pc = "enriched"
  /\ q_out_check' = complete_check(q_out, HEADER_FIELDS)
  /\ q_pc' = "done"
  /\ UNCHANGED <<q_in, q_body, q_check, q_out, q_exc, qauxvars, pvars,
                 dvars>>

\* normalize_key_aliases on the candidate ...
QAlias ==
  /\ q_pc = "new"
  /\ q_alias' = normalize_key_aliases(q_in)
  /\ q_pc' = "aliased"
  /\ UNCHANGED <<q_in, q_body, q_check, q_out, q_exc, q_out_check, q_alias2,
                 q_found, pvars, dvars>>

\* ... and on what it returned.
QAliasAgain ==
  /\ q_pc = "aliased"
  /\ q_alias2' = normalize_key_aliases(q_alias)
  /\ q_pc' = "aliased twice"
  /\ UNCHANGED <<q_in, q_body, q_check, q_out, q_exc, q_out_check, q_alias,
                 q_found, pvars, dvars>>

\* The two e-mail heuristics on the body.
QHeuristics ==
  /\ q_pc = "new"
  /\ q_found' = [top |-> extract_top_from_email(q_body),
                 supplier |-> extract_supplier_email_heuristic(q_body)]
  /\ q_pc' = "found"
  /\ UNCHANGED <<q_in, q_body, q_check, q_out, q_exc, q_out_check, q_alias,
                 q_alias2, pvars, dvars>>

QNext == QCheck \/ QEnrich \/ QCheckOut \/ QAlias \/ QAliasAgain \/ QHeuristics

SpecQuote == QInit /\ [][QNext]_vars

\* ----------------------------------------------------- inputs of SpecParse

\* The most items of an enumerated array.
MaxItems == 2

\* The items of the arrays: scalars, objects, a nested array, and an object
\* that holds an array.
ArrayInNote == <<"{", "\"note\"", ":", " ", "[", "5", "]", "}">>

ItemTexts ==
  { <<"5">>, <<"\"x\"">>, <<"{complete}">>, <<"{incomplete}">>,
    <<"[", "5", "]">>, ArrayInNote }

\* "[" item ", " item ... "]"
ArrayText(items) == <<"[">> \o Join(items, <<",", " ">>) \o <<"]">>

ArrayTexts ==
  {ArrayText(items) : items \in UNION {[1..n -> ItemTexts] : n \in 0..MaxItems}}

\* The text of the object whose members are the pairs <<key, value text>>.
ObjectText(members) ==
  <<"{">> \o Join([n \in 1..Len(members) |->
                     <<members[n][1], ":", " ">> \o members[n][2]],
                   <<",", " ">>)
  \o <<"}">>

\* An array in a markdown fence, with and without the tag.
Fenced(a) ==
  { <<"<fence>", "\n">> \o a \o <<"\n", "<fence>">>,
    <<"<fence>", "json", "\n">> \o a \o <<"\n", "<fence>">>,
    <<"<fence>", "json", " ">> \o a \o <<"<fence>">> }

\* Objects with one member, and objects that wrap an array with a key, alone
\* or next to another member.
ObjectTexts ==
  {<<"{complete}">>, <<"{incomplete}">>, <<"{", "}">>}
  \cup {ObjectText(<<<<"\"note\"", v>>>>) :
          v \in ItemTexts \cup {<<"[", "]">>, <<"[", "{complete}", "]">>}}
  \cup {ObjectText(<<<<key, a>>>>) :
          key \in {"\"quotes\"", "\"Cotacoes\""}, a \in ArrayTexts}
  \cup {ObjectText(<<<<"\"quotes\"", a>>, <<"\"note\"", v>>>>) :
          a \in ArrayTexts, v \in {<<"\"x\"">>, <<"[", "5", "]">>}}
  \cup {ObjectText(<<<<"\"note\"", <<"[", "5", "]">>>>, <<"\"quotes\"", a>>>>) :
          a \in ArrayTexts}
  \cup {ObjectText(<<<<"\"quotes\"", v>>>>) : v \in {<<"5">>, <<"{complete}">>}}

ParseTexts ==
  ArrayTexts \cup UNION {Fenced(a) : a \in ArrayTexts} \cup ObjectTexts
  \cup {<<"prose", " ">> \o a \o <<" ", "prose">> : a \in ArrayTexts}
  \cup UNION {Fenced(o) : o \in {<<"{complete}">>, ArrayInNote}}

\* --------------------------------------------------------------- SpecParse

PInit ==
  /\ p_pc = "new" /\ p_text \in ParseTexts /\ p_out = NoList
  /\ QIdle /\ DIdle

\* parse_llm_to_list on the response.
PParse ==
  /\ p_pc = "new"
  /\ p_out' = parse_llm_to_list(p_text)
  /\ p_pc' = "parsed"
  /\ UNCHANGED <<p_text, qvars, dvars>>

PNext == PParse

SpecParse == PInit /\ [][PNext]_vars

\* ============================================================== the driver

\* ------------------------------------------------------------ files on disk

\* Most files of one batch.
MaxFiles == 2

\* A path of raw_dir: Path.stem and Path.suffix of its name.
PathOf(stem, suffix) == [stem |-> stem, suffix |-> suffix]
NameOf(path) == path.stem \o path.suffix
\* str(path)
PathText(path) == <<"raw", "/">> \o NameOf(path)

\* What a file holds, as read_text_any and extract_body_from_rawtext see it:
\* readable, whether read_text succeeds; json, whether the text is a JSON
\* object with a "body" string, one with metadata.body, or neither; text,
\* the whole text; body, that string.
FileOf(readable, json, text, body) ==
  [readable |-> readable, json |-> json, text |-> text, body |-> body]

RawA == PathOf(<<"a">>, <<".", "j", "s", "o", "n">>)
RawA2 == PathOf(<<"a">>, <<".", "t", "x", "t">>)
RawB == PathOf(<<"b">>, <<".", "t", "x", "t">>)
RawDir == {RawA, RawA2, RawB}

Disk ==
  [path \in RawDir |->
     CASE path = RawA ->
            FileOf(TRUE, "body",
                   Body(<<BodyLine("", <<AddrOther>>), BodyLine("", <<AddrHotel>>)>>, 2),
                   Body(<<BodyLine("from:", <<AddrHotel>>)>>, 1))
       [] path = RawA2 ->
            FileOf(FALSE, "none", Body(<<>>, 0), Body(<<>>, 0))
       [] OTHER ->
            FileOf(TRUE, "none",
                   Body(<<BodyLine("", <<AddrOther>>), BodyLine("to:", <<AddrOwn>>)>>, 2),
                   Body(<<>>, 0))]

\* "<<ERRO AO LER ARQUIVO: {e}>>": one line, no address in it.
ErrorText == FileOf(TRUE, "none", Body(<<BodyLine("", <<>>)>>, 1), Body(<<>>, 0))

\* read_text_any: the text of the file, or the error text when reading
\* raised.
read_text_any(path) == IF Disk[path].readable THEN Disk[path] ELSE ErrorText

extract_body_from_rawtext(raw_text) ==
  IF raw_text.json \in {"body", "metadata"} THEN raw_text.body ELSE raw_text.text

\* sorted(paths): by name, all the paths lying in raw_dir.
RECURSIVE SortedPaths(_)
SortedPaths(S) ==
  IF S = {} THEN <<>>
  ELSE LET first == CHOOSE x \in S :
                      \A y \in S \ {x} : StrLess(NameOf(x), NameOf(y))
       IN <<first>> \o SortedPaths(S \ {first})

FileLists ==
  {SortedPaths(S) : S \in {T \in SUBSET RawDir : T # {} /\ Cardinality(T) <= MaxFiles}}

\* --------------------------------------------------------------- the sinks

Model == <<"g", "p", "t">>

\* f"{idx:02d}"
Pad2(k) == IF k < 10 THEN <<"0">> \o DigitsOf(k) ELSE DigitsOf(k)

\* The names process_file and main give the files of the sinks.
ExtractedName(path, k) == path.stem \o <<"__extracted_">> \o Pad2(k) \o <<".json">>
IncompleteName(path, k) ==
  path.stem \o <<"__extracted_incomplete_">> \o Pad2(k) \o <<".json">>
ParsedErrorName(path) == path.stem \o <<"__parsed_error.json">>
EmptyResultName(path) == path.stem \o <<"__empty_result.json">>
ProcessErrorName(path) == path.stem \o <<"__process_error.json">>

\* The utf-8 codec takes every string of obj.
Encodable(obj) == \A k \in DOMAIN obj : Surrogate \notin Range(obj[k].s)

\* A file of a sink: its JSON document, or nothing when the write failed
\* after open() had truncated it.
Stored(obj) == [stored |-> TRUE, doc |-> obj]
EmptyFile == [stored |-> FALSE, doc |-> EmptyDict]

\* Path.write_text(json.dumps(obj)): the sink afterwards.
write_text(sink, name, obj) ==
  DictSet(sink, name, IF Encodable(obj) THEN Stored(obj) ELSE EmptyFile)

\* One write_text call, for the history.
WriteEvent(sink, name, kind, k, obj) ==
  [sink |-> sink, name |-> name, file |-> file_no, kind |-> kind, idx |-> k,
   stored |-> Encodable(obj), doc |-> obj]

\* One entry of aggregated, for the history.
Origin(kind, k) == [file |-> file_no, kind |-> kind, idx |-> k]

\* meta_base with the time of the call in it (the number of writes so far
\* stands for the clock).
meta_base_Stamped(path) ==
  DictSet(DictSet(DictSet(EmptyDict, "_source_raw", PyStr(PathText(path))),
                  "_llm_model", PyStr(Model)),
          "_processed_at", PyInt(Len(written)))

meta_base(path) ==
  DictSet(DictSet(EmptyDict, "_source_raw", PyStr(PathText(path))),
          "_llm_model", PyStr(Model))

\* The list complete_check returned, as the value of "_missing_fields".
PyNames(missing) == [t |-> "names", s |-> missing, n |-> 0, d |-> 1]

\* str(e) of the exceptions of the model.
ErrText(e) == e

ProcessError(path, e) ==
  DictSet(meta_base(path), "_error", PyStr(<<"PROCESS_FAIL: ">> \o ErrText(e)))

ParseError(path, text) ==
  DictSet(DictSet(meta_base(path), "_error", PyStr(<<"JSON parse fail: ">>)),
          "_llm_raw_response", PyStr(text))

EmptyResult(path) ==
  DictSet(meta_base(path), "_error", PyStr(<<"EMPTY_RESULT_FROM_LLM">>))

\* ------------------------------------------------------------ the responses

\* message.content of the completions the client returns; <<>> is also what
\* "content or ''" makes of None.
Responses ==
  { <<>>,
    <<"prose">>,
    <<"prose", Surrogate>>,
    <<"5">>,
    <<"\"x\"">>,
    <<"[", "]">>,
    <<"[", "5", "]">>,
    <<"[", "{", "}", "]">>,
    <<"[", "{complete}", ",">>,
    <<"[", "{complete}", "]">>,
    <<"{incomplete}">>,
    <<"[", "{complete}", ",", " ", "{incomplete}", "]">>,
    <<"<fence>", "json", "\n", "[", "{complete}", "]", "\n", "<fence>">>,
    <<"prose", " ", "[", "{incomplete}", "]", " ", "prose">>,
    <<"{", "\"Cotacoes\"", ":", "[", "{incomplete}", "]", "}">>,
    <<"[", "{complete}", ",", "{big}", "]">>,
    <<"[", "{tagged}", "]">>,
    <<"[", "{complete}", ",", "{surrogate}", "]">>,
    <<"[", "{sourced}", "]">> }

\* The exception attempt k of call_llm caught.
LLMError(k) == <<"LLMError#">> \o DigitsOf(k)

max_retries == 6
base_delay == 2

\* "if attempt < max_retries" of the except block of call_llm.
MayRetryAlways(k) == k <= max_retries

MayRetry(k) == k < max_retries

\* "sleep_s = base_delay * (2 ** (attempt - 1))": the wait after attempt k.
sleep_s_FromAttempt(k) == base_delay * 2^k

sleep_s(k) == base_delay * 2^(k - 1)

\* -------------------------------------------------------------------- main

\* main up to its for loop: the sorted files, the empty log and sinks.
Init ==
  /\ QIdle /\ PIdle
  /\ pc = "start" /\ files \in FileLists /\ file_no = 1
  /\ aggregated = <<>> /\ ok_quotes = 0 /\ bad_quotes = 0
  /\ jsonl = [saved |-> FALSE, rows |-> <<>>] /\ escaped = <<>>
  /\ body_text = Body(<<>>, 0) /\ llm_text = <<>> /\ quotes = <<>>
  /\ idx = 0 /\ results = <<>>
  /\ out_complete = <<>> /\ out_incomplete = <<>>
  /\ attempt = 0 /\ outcomes = <<>> /\ slept = <<>> /\ llm_raised = <<>>
  /\ origin = <<>> /\ written = <<>> /\ hist = <<>>

\* The file in hand.
CurrentFile == files[file_no]

\* The for loop of main goes to its next file, or ends.
LoopStep ==
  IF file_no < Len(files)
  THEN pc' = "start" /\ file_no' = file_no + 1
  ELSE pc' = "save" /\ file_no' = file_no

\* The except block of the for loop of main, entered with exception e when
\* the incomplete sink is inc and the writes so far are wr.
ExceptEscapes(e, inc, wr) ==
  /\ escaped' = e /\ pc' = "crashed"
  /\ out_incomplete' = inc /\ written' = wr
  /\ UNCHANGED <<file_no, aggregated, origin, ok_quotes, bad_quotes>>

Except(e, inc, wr) ==
  /\ out_incomplete' =
       write_text(inc, ProcessErrorName(CurrentFile), ProcessError(CurrentFile, e))
  /\ written' =
       Append(wr, WriteEvent("incomplete", ProcessErrorName(CurrentFile),
                             "process_error", 0, ProcessError(CurrentFile, e)))
  /\ aggregated' = Append(aggregated, ProcessError(CurrentFile, e))
  /\ origin' = Append(origin, Origin("process_error", 0))
  /\ bad_quotes' = bad_quotes + 1
  /\ UNCHANGED <<ok_quotes, escaped>>
  /\ LoopStep

\* "for row in out_list" of main.
IsBad(row) == "_missing_fields" \in DOMAIN row \/ "_error" \in DOMAIN row

CountBad(rows) == Cardinality({k \in 1..Len(rows) : IsBad(rows[k])})

\* process_file returned rows; their items are numbered from base.
Return(rows, kind, base) ==
  /\ aggregated' = aggregated \o rows
  /\ origin' = origin \o [k \in 1..Len(rows) |-> Origin(kind, base + k - 1)]
  /\ bad_quotes' = bad_quotes + CountBad(rows)
  /\ ok_quotes' = ok_quotes + Len(rows) - CountBad(rows)
  /\ UNCHANGED escaped
  /\ LoopStep

\* How the read and the call of the file in hand ended.
Hist(llm, text) ==
  [file |-> file_no, read_ok |-> Disk[CurrentFile].readable, llm |-> llm,
   text |-> text]

\* process_file up to the call of the LLM.
StartFile ==
  /\ pc = "start"
  /\ body_text' = extract_body_from_rawtext(read_text_any(CurrentFile))
  /\ llm_text' = <<>> /\ quotes' = <<>> /\ idx' = 0 /\ results' = <<>>
  /\ attempt' = 1 /\ outcomes' = <<>> /\ slept' = <<>> /\ llm_raised' = <<>>
  /\ pc' = "llm"
  /\ UNCHANGED <<files, file_no, aggregated, ok_quotes, bad_quotes, jsonl,
                 escaped, sinkvars, histvars, qvars, pvars>>

\* The attempt returned "content or ''".
Returned(text) ==
  /\ llm_text' = text
  /\ outcomes' = Append(outcomes, "ok")
  /\ hist' = Append(hist, Hist("ok", text))
  /\ pc' = "parse"
  /\ UNCHANGED <<files, file_no, aggregated, ok_quotes, bad_quotes, jsonl,
                 escaped, body_text, quotes, idx, results, sinkvars, attempt,
                 slept, llm_raised, origin, written, qvars, pvars>>

\* The attempt raised e: wait and go round again, or raise e.  A loop that
\* runs out returns None, and process_file fails on it with a TypeError.
Failed(e) ==
  /\ outcomes' = Append(outcomes, "err")
  /\ UNCHANGED <<files, jsonl, filevars, out_complete, qvars, pvars>>
  /\ IF MayRetry(attempt)
     THEN /\ slept' = Append(slept, sleep_s(attempt))
          /\ UNCHANGED llm_raised
          /\ IF attempt < max_retries
             THEN /\ attempt' = attempt + 1
                  /\ UNCHANGED <<pc, file_no, aggregated, ok_quotes,
                                 bad_quotes, escaped, out_incomplete,
                                 histvars>>
             ELSE /\ UNCHANGED attempt
                  /\ hist' = Append(hist, Hist("none", <<>>))
                  /\ Except(<<"TypeError">>, out_incomplete, written)
     ELSE /\ UNCHANGED <<slept, attempt>>
          /\ llm_raised' = e
          /\ hist' = Append(hist, Hist("raised", <<>>))
          /\ Except(e, out_incomplete, written)

\* One pass of the for loop of call_llm.
LLMAttempt ==
  /\ pc = "llm"
  /\ \/ \E text \in Responses : Returned(text)
     \/ Failed(LLMError(attempt))

\* call_llm has returned: its locals are gone.
CallOver ==
  attempt' = 0 /\ outcomes' = <<>> /\ slept' = <<>> /\ llm_raised' = <<>>

\* The parse-error entry or the empty-result entry: written to the
\* incomplete sink and returned as the only row.
Marker(name, obj, kind) ==
  /\ CallOver
  /\ UNCHANGED <<files, jsonl, filevars, out_complete, hist, qvars,
                 pvars>>
  /\ IF Encodable(obj)
     THEN /\ out_incomplete' = write_text(out_incomplete, name, obj)
          /\ written' =
               Append(written, WriteEvent("incomplete", name, kind, 0, obj))
          /\ Return(<<obj>>, kind, 0)
     ELSE Except(<<"UnicodeEncodeError">>,
                 write_text(out_incomplete, name, obj),
                 Append(written, WriteEvent("incomplete", name, kind, 0, obj)))

AfterParse(r) ==
  IF r.exc # ""
  THEN Marker(ParsedErrorName(CurrentFile),
              ParseError(CurrentFile, llm_text), "parse_error")
  ELSE IF r.val = <<>>
  THEN Marker(EmptyResultName(CurrentFile), EmptyResult(CurrentFile), "empty")
  ELSE /\ quotes' = r.val /\ idx' = 1 /\ pc' = "enrich"
       /\ CallOver
       /\ UNCHANGED <<files, file_no, aggregated, ok_quotes, bad_quotes,
                      jsonl, escaped, body_text, llm_text, results, sinkvars,
                      histvars, qvars, pvars>>

\* process_file from parse_llm_to_list to the for loop over the quotes.
ParseResponse == pc = "parse" /\ AfterParse(parse_llm_to_list(llm_text))

\* The sink after out_path.write_text, when the record goes to sink to.
SinkAfter(sink, content, to, name, out_obj) ==
  IF sink = to THEN write_text(content, name, out_obj) ELSE content

\* out_path.write_text(...); results.append(out_obj)
WriteQuote(to, name, out_obj) ==
  /\ out_complete' = SinkAfter("complete", out_complete, to, name, out_obj)
  /\ UNCHANGED <<files, jsonl, body_text, llm_text, quotes, llmvars, hist,
                 qvars, pvars>>
  /\ IF Encodable(out_obj)
     THEN /\ out_incomplete' =
               SinkAfter("incomplete", out_incomplete, to, name, out_obj)
          /\ written' =
               Append(written, WriteEvent(to, name, "quote", idx, out_obj))
          /\ results' = Append(results, out_obj)
          /\ idx' = idx + 1
          /\ UNCHANGED <<pc, file_no, aggregated, origin, ok_quotes,
                         bad_quotes, escaped>>
     ELSE /\ UNCHANGED <<results, idx>>
          /\ Except(<<"UnicodeEncodeError">>,
                    SinkAfter("incomplete", out_incomplete, to, name, out_obj),
                    Append(written, WriteEvent(to, name, "quote", idx, out_obj)))

\* out_obj and out_path of the record q that complete_check judged.
Route(q, chk) ==
  IF chk.complete
  THEN WriteQuote("complete", ExtractedName(CurrentFile, idx),
                  DictMerge(meta_base(CurrentFile), q))
  ELSE WriteQuote("incomplete", IncompleteName(CurrentFile, idx),
                  DictSet(DictMerge(meta_base(CurrentFile), q),
                          "_missing_fields", PyNames(chk.missing)))

Enriched(r) ==
  IF r.exc # ""
  THEN /\ Except(<<r.exc>>, out_incomplete, written)
       /\ UNCHANGED <<files, jsonl, filevars, out_complete, llmvars, hist,
                      qvars, pvars>>
  ELSE Route(r.val, complete_check(r.val, HEADER_FIELDS))

\* One pass of the for loop of process_file.
EnrichOne ==
  /\ pc = "enrich" /\ idx <= Len(quotes)
  /\ Enriched(enrich_and_validate_quote(quotes[idx], body_text))

\* "return results" of process_file.
ReturnResults ==
  /\ pc = "enrich" /\ idx > Len(quotes)
  /\ Return(results, "quote", 1)
  /\ UNCHANGED <<files, jsonl, filevars, sinkvars, llmvars, written, hist,
                 qvars, pvars>>

\* The aggregate log is saved, unless the file cannot be opened.
SaveAggregate ==
  /\ pc = "save"
  /\ \E opened \in BOOLEAN :
       jsonl' = [saved |-> opened, rows |-> IF opened THEN aggregated ELSE <<>>]
  /\ pc' = "saved"
  /\ UNCHANGED <<files, file_no, aggregated, ok_quotes, bad_quotes, escaped,
                 filevars, sinkvars, llmvars, histvars, qvars, pvars>>

Next ==
  \/ StartFile
  \/ LLMAttempt
  \/ ParseResponse
  \/ EnrichOne
  \/ ReturnResults
  \/ SaveAggregate

Spec == Init /\ [][Next]_vars

\* ------------------------------------------------------------- SpecTwice
\* process_file called again on a file it has processed, with the loop of
\* main as its caller: the list names a file twice, in a row or with
\* another file in between (one of the same stem, or one of another).

TwiceLists ==
  {<<f, f>> : f \in RawDir}
  \cup {<<RawA, RawA2, RawA>>, <<RawB, RawA, RawB>>}

InitTwice ==
  /\ QIdle /\ PIdle
  /\ pc = "start" /\ files \in TwiceLists /\ file_no = 1
  /\ aggregated = <<>> /\ ok_quotes = 0 /\ bad_quotes = 0
  /\ jsonl = [saved |-> FALSE, rows |-> <<>>] /\ escaped = <<>>
  /\ body_text = Body(<<>>, 0) /\ llm_text = <<>> /\ quotes = <<>>
  /\ idx = 0 /\ results = <<>>
  /\ out_complete = <<>> /\ out_incomplete = <<>>
  /\ attempt = 0 /\ outcomes = <<>> /\ slept = <<>> /\ llm_raised = <<>>
  /\ origin = <<>> /\ written = <<>> /\ hist = <<>>

SpecTwice == InitTwice /\ [][Next]_vars

\* ============================================================== properties

\* -------------------------------------------------------------- C1 (SpecQuote)

\* The place of a field in HEADER_FIELDS.
Pos(k) == CHOOSE n \in 1..Len(HEADER_FIELDS) : HEADER_FIELDS[n] = k

\* A field that is absent, None, or a string of white space only.
Blank(record, k) ==
  \/ k \notin DOMAIN record
  \/ record[k] = PyNone
  \/ /\ record[k].t = "str"
     /\ \A n \in 1..Len(record[k].s) : record[k].s[n] \in Whitespace

CheckIsRight(record, chk) ==
  /\ chk.complete = (\A k \in Range(HEADER_FIELDS) : ~Blank(record, k))
  /\ Range(chk.missing) = {k \in Range(HEADER_FIELDS) : Blank(record, k)}
  /\ \A a, b \in 1..Len(chk.missing) :
       a < b => Pos(chk.missing[a]) < Pos(chk.missing[b])
  /\ chk.complete => chk.missing = <<>>

\* C1: complete_check returns complete = TRUE iff no canonical field is
\* absent, None or a string that is empty after stripping; missing holds
\* exactly those fields, in the order of HEADER_FIELDS, and is empty when
\* the record is complete.  Checked on the candidates and on the enriched
\* records.
C1_CompleteCheck ==
  /\ q_pc \in {"checked", "enriched", "raised", "done"} => CheckIsRight(q_in, q_check)
  /\ q_pc = "done" => CheckIsRight(q_out, q_out_check)

\* A candidate with a field of white space and an absent field: both are
\* in missing.
C1_Witness ==
  /\ q_pc = "checked"
  /\ ~q_check.complete
  /\ \E k \in DOMAIN q_in :
       q_in[k] = PyStr(<<" ">>) /\ k \in Range(q_check.missing)
  /\ \E k \in Range(q_check.missing) : k \notin DOMAIN q_in

\* -------------------------------------------------------------- C3 (SpecQuote)

\* C3: in every record enrich_and_validate_quote produces, whatever the
\* candidate held as its price (a number, a string, None, nothing), the
\* price is a float or the empty string.
C3_PriceFloatOrEmpty ==
  q_pc \in {"enriched", "done"} =>
    \/ q_out["Preco (num)"].t = "float"
    \/ q_out["Preco (num)"] = EmptyStr

\* The price "975,00" became the float 975.0.
C3_Witness ==
  /\ q_pc = "enriched"
  /\ DictGet(q_in, "Preco (num)", PyNone) = PyStr(<<"9", "7", "5", ",", "0", "0">>)
  /\ q_out["Preco (num)"] = PyFloat(975, 1)

\* -------------------------------------------------------------- C4 (SpecQuote)

\* The candidate holds a deprecated key that stands for k.
AliasHeld(k) ==
  \E n \in 1..Len(OLD_TO_NEW_KEYS) :
    OLD_TO_NEW_KEYS[n][2] = k /\ OLD_TO_NEW_KEYS[n][1] \in DOMAIN q_in

\* What the record holds for a canonical key k that the candidate lacks.
FilledAs(k) ==
  CASE k = "Email do remetente (top-level)" ->
         q_out[k] = PyStr(extract_top_from_email(q_body))
    [] k = "Email do fornecedor" ->
         q_out[k] = PyStr(extract_supplier_email_heuristic(q_body))
    [] k = "Descricao dos Quartos" ->
         AliasHeld(k) \/ q_out[k] = PyStr(synthesize_room_description(q_out))
    [] k = "Categoria do quarto" ->
         q_out[k] = IF AliasHeld(k) THEN q_in["Tipo de quarto (normalizado)"]
                    ELSE EmptyStr
    [] k = "Configuracao do quarto" ->
         q_out[k] = IF AliasHeld(k)
                    THEN q_in["Qual configuracao do quarto (twin, double)"]
                    ELSE EmptyStr
    [] OTHER -> q_out[k] = EmptyStr

\* C4, as amended: every record enrich_and_validate_quote produces holds
\* every key of HEADER_FIELDS, whatever keys the candidate held.  A key the
\* candidate lacks holds the empty string, save that a key whose deprecated
\* alias the candidate holds takes the value of the alias (the description
\* after refinement), the two e-mail fields hold the address their
\* heuristic finds in the body, if any, and the description holds the text
\* synthesized from category and configuration.
C4_AllKeysPresent ==
  q_pc \in {"enriched", "done"} =>
    /\ Range(HEADER_FIELDS) \subseteq DOMAIN q_out
    /\ \A k \in Range(HEADER_FIELDS) \ DOMAIN q_in : FilledAs(k)

\* C4, as claimed: every record holds every key of HEADER_FIELDS, and the
\* keys the candidate lacks hold the empty string.
C4_AbsentKeysEmpty ==
  q_pc \in {"enriched", "done"} =>
    /\ Range(HEADER_FIELDS) \subseteq DOMAIN q_out
    /\ \A k \in Range(HEADER_FIELDS) \ DOMAIN q_in : q_out[k] = EmptyStr

\* A candidate of deprecated keys only: the record holds every key, the
\* supplier found in the body, and "" for the city.
C4_Witness ==
  /\ q_pc = "enriched"
  /\ DOMAIN q_in # {} /\ DOMAIN q_in \subseteq OldKeys
  /\ Range(HEADER_FIELDS) \subseteq DOMAIN q_out
  /\ q_out["Email do fornecedor"] = PyStr(AddrHotel)
  /\ q_out["Cidade"] = EmptyStr

\* ------------------------------------------------------- the driver (Spec)

\* main is done with file j.
Done(j) == j < file_no \/ pc \in {"save", "saved"}

\* The entries of the aggregate log that file j gave.
EntriesOf(j) == {m \in 1..Len(origin) : origin[m].file = j}

\* The write_text calls that put a quote record of file j into a sink.
QuoteWrites(j) ==
  {m \in 1..Len(written) : written[m].file = j /\ written[m].kind = "quote"}

\* The batch is over and every file gave the log an entry.
AllFilesLogged ==
  pc \in {"save", "saved"} =>
    Len(hist) = Len(files) /\ \A j \in 1..Len(files) : EntriesOf(j) # {}

\* File j gave the log one entry, of this kind, and the sinks no quote.
OneEntry(j, kind) ==
  /\ Cardinality(EntriesOf(j)) = 1
  /\ \A m \in EntriesOf(j) : origin[m].kind = kind
  /\ QuoteWrites(j) = {}

\* -------------------------------------------------------------------- C2

\* C2: every enriched candidate is written to exactly one sink: to the
\* complete sink, without a missing-field list, iff complete_check found
\* no missing field; otherwise to the incomplete sink, with the ordered
\* missing-field list.  No record reaches both sinks or neither.
C2_ExactlyOneSink ==
  \A m \in UNION {QuoteWrites(j) : j \in 1..Len(files)} :
    /\ written[m].stored
    /\ Cardinality({n \in QuoteWrites(written[m].file) :
                      written[n].idx = written[m].idx}) = 1
    /\ (written[m].sink = "complete")
         = complete_check(written[m].doc, HEADER_FIELDS).complete
    /\ written[m].sink = "complete" =>
         "_missing_fields" \notin DOMAIN written[m].doc
    /\ written[m].sink = "incomplete" =>
         /\ "_missing_fields" \in DOMAIN written[m].doc
         /\ written[m].doc["_missing_fields"] =
              PyNames(complete_check(written[m].doc, HEADER_FIELDS).missing)

\* -------------------------------------------------------------------- C5

C6_RetryLoop ==
  /\ Len(outcomes) <= max_retries
  /\ \A n \in 1..Len(outcomes) :
       outcomes[n] = "ok" =>
         /\ n = Len(outcomes)
         /\ pc = "parse" /\ llm_raised = <<>>
         /\ hist[Len(hist)].llm = "ok" /\ hist[Len(hist)].text = llm_text
  /\ (llm_raised # <<>>)
       = (Len(outcomes) = max_retries /\ \A n \in 1..Len(outcomes) : outcomes[n] = "err")
  /\ llm_raised # <<>> => llm_raised = LLMError(max_retries)

\* All the attempts raised: the call raised the exception of the last.
C6_Witness ==
  /\ Len(outcomes) = max_retries
  /\ llm_raised = LLMError(max_retries)
  /\ Len(slept) = max_retries - 1

\* -------------------------------------------------------------------- C7

\* C7: after a batch run the log lists its entries in the order of the
\* files and, within a file, in the order of the candidates; and every
\* complete record, incomplete record and error marker that the run
\* produced is in it exactly once.
C7_LogOrderedAndWhole ==
  pc \in {"save", "saved"} =>
    /\ \A a, b \in 1..Len(origin) :
         a < b =>
           \/ origin[a].file < origin[b].file
           \/ origin[a].file = origin[b].file /\ origin[a].idx < origin[b].idx
    /\ \A n \in 1..Len(written) :
         written[n].stored =>
           Cardinality({m \in EntriesOf(written[n].file) :
                          /\ origin[m].kind = written[n].kind
                          /\ origin[m].idx = written[n].idx
                          /\ aggregated[m] = written[n].doc}) = 1

\* -------------------------------------------------------------------- C8

\* C8: when reading an input file fails, the log gets a process-error
\* entry for the file and the driver goes on with the next file.
C8_ReadFailureLogged ==
  \A j \in 1..Len(files) :
    Done(j) /\ ~Disk[files[j]].readable =>
      /\ \E m \in EntriesOf(j) : origin[m].kind = "process_error"
      /\ pc # "crashed"

\* -------------------------------------------------------------------- C9

\* What parse_llm_to_list hands to json.loads.
Cleaned(text) == StripFences(Strip(sanitize_json_only(text)))

\* The response is no JSON text.
Unparseable(text) == json_loads(Cleaned(text)).exc # ""

\* The response is JSON, and a scalar.
ScalarJSON(text) ==
  /\ json_loads(Cleaned(text)).exc = ""
  /\ json_loads(Cleaned(text)).val.kind = "scalar"

NoUsableRecord(text) ==
  parse_llm_to_list(text).exc = "" /\ parse_llm_to_list(text).val = <<>>

\* C10: when the parsed response of a file holds no usable record, the
\* file gives exactly one empty-result marker and no quote record; the
\* marker differs from the parse-error and process-error entries, and is
\* neither recorded nor counted as an error.
C10_EmptyIsNoError ==
  \A n \in 1..Len(hist) :
    hist[n].llm = "ok" /\ Done(hist[n].file) /\ NoUsableRecord(hist[n].text) =>
      /\ OneEntry(hist[n].file, "empty")
      /\ \A m \in EntriesOf(hist[n].file) :
           /\ \A k \in 1..Len(origin) :
                origin[k].kind \in {"parse_error", "process_error"} =>
                  aggregated[k] # aggregated[m]
           /\ "_error" \notin DOMAIN aggregated[m]
           /\ ~IsBad(aggregated[m])

\* ------------------------------------------------------------- C11 (SpecQuote)

\* C11: enrichment never raises: whatever the candidate holds (any JSON
\* scalar as the value of any field, an integer of any size as its price,
\* null, or no key at all) and whatever the body text, coerce_price and
\* enrich_and_validate_quote return a value.
C11_EnrichNeverRaises ==
  /\ q_pc # "raised" /\ q_exc = ""
  /\ q_pc \in {"enriched", "raised", "done"} =>
       coerce_price(DictGet(q_in, "Preco (num)", PyNone)).exc = ""

\* ------------------------------------------------------------- C12 (SpecQuote)

Rewritten == {"Preco (num)", "Descricao dos Quartos"}

\* C12, as amended: each canonical field other than the price and the room
\* description whose value in the candidate is not blank has the same value
\* after enrich_and_validate_quote; the price and the room description are
\* rewritten by the price normalizer and the description refiner whatever
\* they held.
C12_OtherFieldsKept ==
  q_pc \in {"enriched", "done"} =>
    \A k \in Range(HEADER_FIELDS) \ Rewritten :
      ~Blank(q_in, k) => q_out[k] = q_in[k]

\* C12, as claimed: each canonical field whose value in the candidate is
\* not blank has the same value after enrich_and_validate_quote.
C12_NonBlankKept ==
  q_pc \in {"enriched", "done"} =>
    \A k \in Range(HEADER_FIELDS) : ~Blank(q_in, k) => q_out[k] = q_in[k]

\* Both e-mail fields of the candidate held a value, the body held other
\* addresses for both, and the record holds the candidate's values.
C12_Witness ==
  /\ q_pc = "enriched"
  /\ \A k \in EmailFields :
       /\ k \in DOMAIN q_in /\ q_in[k] = PyStr(<<"x">>)
       /\ q_out[k] = PyStr(<<"x">>)
  /\ extract_top_from_email(q_body) # <<>>
  /\ extract_supplier_email_heuristic(q_body) # <<>>

\* ------------------------------------------------------------- C13 (SpecQuote)

\* The address the heuristic of an e-mail field finds in the body.
FoundFor(k, body) ==
  IF k = "Email do fornecedor" THEN extract_supplier_email_heuristic(body)
  ELSE extract_top_from_email(body)

\* C13: for each of the two e-mail fields, when the candidate's value is
\* blank (absent, a string that is empty or white space, or None) and the
\* heuristic of the field finds an address in the body, the field holds
\* that address after enrichment.
C13_EmailBackfilled ==
  q_pc \in {"enriched", "done"} =>
    \A k \in EmailFields :
      Blank(q_in, k) /\ FoundFor(k, q_body) # <<>> =>
        q_out[k] = PyStr(FoundFor(k, q_body))

\* ------------------------------------------------------------- C14 (SpecQuote)

\* The addresses of a body.
AddressesOf(body) ==
  {body.lines[n].emails[m] : <<n, m>> \in
     {nm \in (1..Len(body.lines)) \X (1..2) : nm[2] <= Len(body.lines[nm[1]].emails)}}

\* The domain of the address, in lower case, is one of the ignored ones.
OnIgnoredDomain(em) ==
  \E at \in 1..Len(em) :
    /\ em[at] = "@"
    /\ \E dom \in ignore_domains :
         /\ Len(dom) = Len(em) - at
         /\ \A n \in 1..Len(dom) : LowerChar(em[at + n]) = dom[n]

\* C14: the supplier heuristic never returns an address on an ignored
\* domain, on whatever line and in whatever letter case the address is;
\* when every address of the body is on an ignored domain it returns the
\* empty string, and what it returns otherwise is an address of the body.
\* An address that enrichment puts in the supplier field is no ignored one.
C14_SupplierNotIgnored ==
  /\ q_pc = "found" =>
       /\ ~OnIgnoredDomain(q_found.supplier)
       /\ q_found.supplier # <<>> => q_found.supplier \in AddressesOf(q_body)
       /\ (\A em \in AddressesOf(q_body) : OnIgnoredDomain(em)) <=>
            q_found.supplier = <<>>
  /\ q_pc \in {"enriched", "done"} =>
       \/ q_out["Email do fornecedor"] = DictGet(q_in, "Email do fornecedor", EmptyStr)
       \/ ~OnIgnoredDomain(q_out["Email do fornecedor"].s)

\* The body holds the company's address on its "from:" line and a webmail
\* address below, neither in lower case: the heuristic returned "".
C14_Witness ==
  /\ q_pc = "found"
  /\ AddressesOf(q_body) = {AddrOwn, AddrGmail}
  /\ q_body.lines[1].hdr = "from:"
  /\ q_found.supplier = <<>>

\* ------------------------------------------------------------- C15 (SpecQuote)

\* The old keys of the candidate that stand for new key k.
OldFor(k) ==
  {OLD_TO_NEW_KEYS[n][1] : n \in {m \in 1..Len(OLD_TO_NEW_KEYS) :
     OLD_TO_NEW_KEYS[m][2] = k /\ OLD_TO_NEW_KEYS[m][1] \in DOMAIN q_in}}

\* C15: normalize_key_aliases applied twice gives the same record as
\* applied once, also on a record with several deprecated keys for one new
\* key and on a record with an old key and its new key.
C15_AliasIdempotent ==
  q_pc = "aliased twice" => q_alias2 = q_alias

\* The candidate held the three deprecated keys of the description and no
\* new key: the first call moved one of them, the second call nothing.
C15_Witness ==
  /\ q_pc = "aliased twice"
  /\ Cardinality(OldFor("Descricao dos Quartos")) = 3
  /\ "Descricao dos Quartos" \notin DOMAIN q_in
  /\ q_alias # q_in
  /\ q_alias2 = q_alias

\* ------------------------------------------------------------- C16 (SpecQuote)

\* Key k and its value are in both records or in neither.
SameAt(a, b, k) ==
  /\ k \in DOMAIN a <=> k \in DOMAIN b
  /\ k \in DOMAIN a => a[k] = b[k]

\* C16: normalize_key_aliases moves the value of an old key to its new key
\* only when the candidate lacks the new key; a new key the candidate holds
\* keeps its value and leaves its old keys in place; a new key the result
\* gains holds the value of the first of its old keys, which is gone; every
\* other key is left as it was.
C16_AliasNonDestructive ==
  q_pc \in {"aliased", "aliased twice"} =>
    /\ \A k \in (DOMAIN q_in \cup DOMAIN q_alias) \ (OldKeys \cup AliasTargets) :
         SameAt(q_in, q_alias, k)
    /\ \A k \in AliasTargets :
         IF k \in DOMAIN q_in
         THEN /\ SameAt(q_in, q_alias, k)
              /\ \A old \in OldFor(k) : SameAt(q_in, q_alias, old)
         ELSE IF OldFor(k) = {} THEN k \notin DOMAIN q_alias
         ELSE \E old \in OldFor(k) :
                /\ old \notin DOMAIN q_alias
                /\ k \in DOMAIN q_alias /\ q_alias[k] = q_in[old]
                /\ \A other \in OldFor(k) \ {old} : SameAt(q_in, q_alias, other)
    /\ \A old \in OldKeys \ DOMAIN q_in : old \notin DOMAIN q_alias

\* The candidate held an old key of the category and the category itself:
\* both are still there, with their values.
C16_Witness ==
  /\ q_pc = "aliased"
  /\ "Tipo de quarto (normalizado)" \in DOMAIN q_in
  /\ "Categoria do quarto" \in DOMAIN q_in
  /\ q_in["Tipo de quarto (normalizado)"] # q_in["Categoria do quarto"]
  /\ SameAt(q_in, q_alias, "Tipo de quarto (normalizado)")
  /\ SameAt(q_in, q_alias, "Categoria do quarto")

\* ------------------------------------------------------------- C17 (SpecQuote)

\* The price of the candidate is v and the price of the record is w.
PriceMaps(v, w) ==
  ("Preco (num)" \in DOMAIN q_in /\ q_in["Preco (num)"] = v) =>
    q_out["Preco (num)"] = w

\* C17: the price normalizer maps "1.234,56" (thousands dot, decimal
\* comma) to 1234.56, "1234.56" to 1234.56, "" and None to "", 900 to 900.0
\* and "not a number" to "".
C17_PriceExamples ==
  q_pc \in {"enriched", "done"} =>
    /\ PriceMaps(PyStr(<<"1", ".", "2", "3", "4", ",", "5", "6">>), PyFloat(123456, 100))
    /\ PriceMaps(PyStr(<<"1", "2", "3", "4", ".", "5", "6">>), PyFloat(123456, 100))
    /\ PriceMaps(EmptyStr, EmptyStr)
    /\ PriceMaps(PyNone, EmptyStr)
    /\ PriceMaps(PyInt(900), PyFloat(900, 1))
    /\ PriceMaps(PyStr(<<"n", "o", "t", " ", "a", " ", "n", "u", "m", "b", "e", "r">>), EmptyStr)

\* ------------------------------------------------------------- C18 (SpecParse)

\* What json.loads makes of the whole text.
Whole == json_loads(p_text)

\* The response is one JSON object and nothing else.
BareObject == Whole.exc = "" /\ Whole.val.kind = "dict"

\* The object holds key under a list.
ListUnder(key) ==
  BareObject /\ key \in DOMAIN Whole.val.v /\ Whole.val.v[key].kind = "array"

\* C18: a response that is a single bare JSON object, whatever its field
\* values (arrays among them), parses to the one-element list that holds
\* the object.  The objects that wrap a list under "quotes" or "Cotacoes"
\* are left to C19.
C18_BareObjectIsOneElement ==
  p_pc = "parsed" /\ BareObject /\ ~ListUnder("quotes") /\ ~ListUnder("Cotacoes") =>
    p_out = [exc |-> "", val |-> <<Candidate(Whole.val.v)>>]

\* ------------------------------------------------------------- C19 (SpecParse)

\* C19: a response that is a JSON object with a list under its "quotes" key
\* parses to the objects of that list, in their order, and not to the
\* one-element list that holds the wrapper.
C19_QuotesKeyUnwraps ==
  p_pc = "parsed" /\ ListUnder("quotes") =>
    p_out = [exc |-> "", val |-> OnlyDicts(Whole.val.v["quotes"].v)]

\* ------------------------------------------------------------- C20 (SpecParse)

\* C20: for every valid JSON array A, the response that holds A in a
\* markdown fence, with or without the json tag, parses to the list A alone
\* parses to: the objects of A, in their order.
C20_FenceIsTransparent ==
  p_pc = "parsed" =>
    \A a \in ArrayTexts :
      p_text \in Fenced(a) =>
        /\ p_out = parse_llm_to_list(a)
        /\ p_out = [exc |-> "", val |-> OnlyDicts(json_loads(a).val.v)]

\* A fenced array with the tag, holding a scalar and an object: the list
\* holds the object.
C20_Witness ==
  /\ p_pc = "parsed"
  /\ p_text \in Fenced(<<"[", "5", ",", " ", "{complete}", "]">>)
  /\ p_text[2] = "json"
  /\ p_out = [exc |-> "", val |-> <<CandComplete>>]

\* ------------------------------------------------------------- C21 (SpecQuote)

\* The call in hand is the end-to-end scenario.
Scenario == q_in \in ScenarioCandidates /\ q_body = ScenarioBody

\* The fields of the scenario that the candidate gave or enrichment fills.
ScenarioFilled ==
  DOMAIN ScenarioGiven \cup EmailFields \cup {"Descricao dos Quartos"}

\* C21: for the candidate with category "Luxo", configuration "SGL/DBL",
\* price "975,00" and every other field blank, and a body with the line
\* "from: reservas@hotelx.com", the enriched record holds the price 975.0
\* as a float and the supplier e-mail reservas@hotelx.com, and is flagged
\* incomplete with a missing list that names the fields still blank after
\* enrichment and none of the fields that enrichment filled.
C21_EndToEnd ==
  q_pc = "done" /\ Scenario =>
    /\ q_out["Preco (num)"].t = "float"
    /\ q_out["Preco (num)"].n = 975 * q_out["Preco (num)"].d
    /\ q_out["Email do fornecedor"] = PyStr(AddrReservas)
    /\ ~q_out_check.complete
    /\ Range(q_out_check.missing) = {k \in Range(HEADER_FIELDS) : Blank(q_out, k)}
    /\ Range(q_out_check.missing) = Range(HEADER_FIELDS) \ ScenarioFilled

\* ------------------------------------------------------------------- C22

\* The waits of a call whose attempts all failed, in order.
Waits == <<2, 4, 8, 16, 32>>

\* The attempts of the call in hand that failed.
FailedAttempts == {n \in 1..Len(outcomes) : outcomes[n] = "err"}

\* C22: in call_llm the wait after the k-th failed attempt, k from 1 to 5,
\* is base_delay * 2^(k-1) seconds with base_delay = 2, that is 2, 4, 8,
\* 16, 32 in that order; there is no wait after a successful attempt and
\* none after the 6th failed attempt, so a call waits at most 5 times.
C22_BackoffWaits ==
  /\ base_delay = 2
  /\ Len(slept) <= 5
  /\ Len(slept) = Cardinality(FailedAttempts \ {6})
  /\ \A k \in 1..Len(slept) :
       /\ outcomes[k] = "err"
       /\ slept[k] = base_delay * 2^(k - 1)
       /\ slept[k] = Waits[k]

\* Five attempts failed and the sixth succeeded: the call waited 2, 4, 8,
\* 16 and 32 seconds, and not after its last attempt.
C22_Witness ==
  /\ pc = "parse"
  /\ Len(outcomes) = 6 /\ outcomes[6] = "ok"
  /\ slept = Waits

\* ------------------------------------------------------------------- C23

\* The candidates of file j: what parse_llm_to_list made of its response.
CandidatesOf(j) ==
  IF hist[j].llm = "ok" /\ parse_llm_to_list(hist[j].text).exc = ""
  THEN parse_llm_to_list(hist[j].text).val
  ELSE <<>>

\* Enrichment of candidate q of file j.
EnrichedOf(j, q) ==
  enrich_and_validate_quote(
    q, extract_body_from_rawtext(read_text_any(files[j])))

\* Neither the enrichment nor the writing of candidate q of file j fails.
Sound(j, q) ==
  /\ EnrichedOf(j, q).exc = ""
  /\ Encodable(EnrichedOf(j, q).val)

\* Candidate k of file j is in a sink and in the aggregate log.
Delivered(j, k) ==
  /\ \E m \in QuoteWrites(j) : written[m].idx = k /\ written[m].stored
  /\ \E m \in EntriesOf(j) : origin[m].kind = "quote" /\ origin[m].idx = k

\* C23: when a file yields N candidates and the enrichment or the writing
\* of one of them fails, each of the other N-1 candidates is still enriched,
\* written to its sink and appended to the aggregate log.
C23_SiblingIsolation ==
  \A j \in 1..Len(hist) :
    Done(j) =>
      \A k \in 1..Len(CandidatesOf(j)) :
        Sound(j, CandidatesOf(j)[k]) => Delivered(j, k)

\* ------------------------------------------------------- C24 (SpecTwice)

\* The rows file j gave the aggregate log, in order.
RowsOf(j) ==
  LET at == SelectSeq([m \in 1..Len(origin) |-> m], LAMBDA m : origin[m].file = j)
  IN [n \in 1..Len(at) |-> aggregated[at[n]]]

\* The write_text calls of file j, in order, less the number of the file.
WritesOf(j) ==
  LET at == SelectSeq([m \in 1..Len(written) |-> m], LAMBDA m : written[m].file = j)
  IN [n \in 1..Len(at) |->
        [sink |-> written[at[n]].sink, name |-> written[at[n]].name,
         stored |-> written[at[n]].stored, doc |-> written[at[n]].doc]]

\* The sink after the first n write_text calls of the run.
RECURSIVE SinkAt(_, _)
SinkAt(sink, n) ==
  IF n = 0 THEN <<>>
  ELSE IF written[n].sink = sink
       THEN write_text(SinkAt(sink, n - 1), written[n].name, written[n].doc)
       ELSE SinkAt(sink, n - 1)

\* The number of write_text calls up to the end of file j.
WritesUpTo(j) == Cardinality({m \in 1..Len(written) : written[m].file <= j})

\* Files i and j are one file, and the LLM gave the same for both.
SameCall(i, j) ==
  /\ files[i] = files[j]
  /\ hist[i].llm = hist[j].llm /\ hist[i].text = hist[j].text

\* C24: process_file called twice on one input file with the same LLM
\* response returns the same list of entries both times and writes the
\* same files with the same content, whatever was processed before; two
\* calls in a row leave the complete and the incomplete sink as one call
\* does.
C24_ProcessFileIdempotent ==
  /\ out_complete = SinkAt("complete", Len(written))
  /\ out_incomplete = SinkAt("incomplete", Len(written))
  /\ \A i, j \in 1..Len(hist) :
       i < j /\ Done(j) /\ SameCall(i, j) =>
         /\ RowsOf(i) = RowsOf(j)
         /\ WritesOf(i) = WritesOf(j)
         /\ j = i + 1 =>
              \A sink \in {"complete", "incomplete"} :
                SinkAt(sink, WritesUpTo(i)) = SinkAt(sink, WritesUpTo(j))

\* A file gave two candidates, one for each sink, and gave them again.
C24_Witness ==
  /\ pc = "saved" /\ Len(files) = 2 /\ SameCall(1, 2)
  /\ Len(RowsOf(1)) = 2 /\ RowsOf(2) = RowsOf(1)
  /\ {WritesOf(2)[n].sink : n \in 1..Len(WritesOf(2))} = {"complete", "incomplete"}
  /\ Len(written) = 4
  /\ Cardinality(DOMAIN out_complete) = 1 /\ Cardinality(DOMAIN out_incomplete) = 1

\* ------------------------------------------------------------- C25 (SpecQuote)

\* The record as the description step finds it, and the arguments of the
\* refiner.
Refined == Backfill(normalize_key_aliases(q_in))
RefCat == StrOrEmpty(Refined, "Categoria do quarto")
RefCfg == StrOrEmpty(Refined, "Configuracao do quarto")

\* The candidate lines of the refiner.
RefLines ==
  LET desc_block == strip_price_tokens(StrOrEmpty(Refined, "Descricao dos Quartos"))
  IN IF desc_block = <<>> THEN <<>>
     ELSE _line_split_chunks(_remove_hotel_wide_info(strip_price_tokens(desc_block)))

CatScore(ln) == _category_match_score(ln, RefCat)
CfgScore(ln) == _config_match_score(ln, RefCfg)
Total(ln) == CatScore(ln) * 3 + CfgScore(ln)

\* The lines that are ranked: the ones with a total above zero.
Ranked == {ln \in Range(RefLines) : Strip(ln) # <<>> /\ Total(ln) > 0}

\* The ranked lines of the highest total.
TopLines == {ln \in Ranked : \A other \in Ranked : Total(other) <= Total(ln)}

\* The line the refiner returned.
BestOf == q_out["Descricao dos Quartos"].s

\* C25: among the candidate lines with the same highest total score the
\* refiner returns the longer one.
C25_TieLongerLine ==
  q_pc \in {"enriched", "done"} /\ Ranked # {} =>
    /\ BestOf \in {Strip(ln) : ln \in TopLines}
    /\ \A ln \in TopLines : Len(Strip(ln)) <= Len(BestOf)

\* ------------------------------------------------------------- C26 (SpecQuote)

\* C26, as amended: the refiner ranks by total = 3 * category score +
\* configuration score, and returns a line of the highest total.  A line
\* with category score c > 0 and configuration score g is above every line
\* of category score zero whose configuration score is less than 3c + g;
\* a line of category score zero is returned only when its configuration
\* score is at least that.
C26_TotalDecides ==
  q_pc \in {"enriched", "done"} /\ Ranked # {} =>
    /\ BestOf \in {Strip(ln) : ln \in Ranked}
    /\ \A ln \in Ranked : Total(ln) <= Total(BestOf)
    /\ \A ln \in Ranked :
         CatScore(ln) > 0 /\ CatScore(BestOf) = 0 =>
           CfgScore(BestOf) >= 3 * CatScore(ln) + CfgScore(ln)

\* C26, as claimed: a line with a positive category score is never ranked
\* below a line whose category score is zero, whatever the configuration
\* scores: when a ranked line has a positive category score, so has the
\* line returned.
C26_CategoryDominates ==
  q_pc \in {"enriched", "done"} /\ Ranked # {} =>
    ((\E ln \in Ranked : CatScore(ln) > 0) => CatScore(BestOf) > 0)

\* A line that names the category (score 4, total 12) and a line that names
\* the configuration only (score 5): the first is returned.
C26_Witness ==
  /\ q_pc = "enriched"
  /\ \E a, b \in Ranked :
       /\ CatScore(a) = 4 /\ CfgScore(a) = 0
       /\ CatScore(b) = 0 /\ CfgScore(b) = 5
       /\ BestOf = Strip(a)

\* ------------------------------------------------------------------- C27

\* Write m put a quote record into a sink.
QuoteInSink(m) == written[m].kind = "quote" /\ written[m].stored

\* The aggregate log holds the record of write m as an entry of its file
\* and candidate.
Logged(m) ==
  \E n \in 1..Len(aggregated) :
    /\ origin[n] = [file |-> written[m].file, kind |-> "quote",
                    idx |-> written[m].idx]
    /\ aggregated[n] = written[m].doc

\* C27: at the end of a batch run every quote record that was written to
\* the complete or the incomplete sink has its entry in the aggregate log,
\* the records of a file whose processing raised after some of its
\* candidates had been written among them.
C27_SinkLogConsistent ==
  pc \in {"save", "saved"} =>
    \A m \in 1..Len(written) : QuoteInSink(m) => Logged(m)

\* ------------------------------------------------------------------- C28

\* Entry n of the log is a quote record that was written to the complete
\* sink.
InCompleteSink(n) ==
  /\ origin[n].kind = "quote"
  /\ \E m \in 1..Len(written) :
       /\ written[m].sink = "complete" /\ QuoteInSink(m)
       /\ written[m].file = origin[n].file /\ written[m].idx = origin[n].idx

\* C28: after a batch run ok_quotes + bad_quotes is the number of entries
\* of the aggregate log, and the entries counted in ok_quotes are the quote
\* records that were written to the complete sink, whatever extra keys
\* ("_error", "_missing_fields") the LLM put in the candidate.
C28_CountersAgreeWithRouting ==
  pc \in {"save", "saved"} =>
    /\ ok_quotes + bad_quotes = Len(aggregated)
    /\ ok_quotes = Cardinality({n \in 1..Len(aggregated) : InCompleteSink(n)})
    /\ \A n \in 1..Len(aggregated) : InCompleteSink(n) = ~IsBad(aggregated[n])

\* ------------------------------------------------------------------- C29

\* Writes m and n went to one path of one sink.
SamePath(m, n) ==
  written[m].sink = written[n].sink /\ written[m].name = written[n].name

\* C29: within one batch run no file of a sink is written twice: the
\* records and markers of distinct input files, and the candidates of one
\* file, go to distinct paths, also when two input files share their stem.
C29_NoSinkFileWrittenTwice ==
  \A m, n \in 1..Len(written) : m # n => ~SamePath(m, n)

\* ------------------------------------------------------------------- C30

\* obj names file j as its source and the model of the run as its model.
Provenance(obj, j) ==
  /\ "_source_raw" \in DOMAIN obj /\ obj["_source_raw"] = PyStr(PathText(files[j]))
  /\ "_llm_model" \in DOMAIN obj /\ obj["_llm_model"] = PyStr(Model)

\* C30: in every entry of the aggregate log and in every file of a sink,
\* "_source_raw" holds the path of the input file that produced the entry
\* and "_llm_model" the model used, whatever keys the candidate of the LLM
\* held.
C30_Provenance ==
  /\ \A n \in 1..Len(aggregated) : Provenance(aggregated[n], origin[n].file)
  /\ \A m \in 1..Len(written) :
       written[m].stored => Provenance(written[m].doc, written[m].file)

====
